---- MODULE Spec2Model ----
(***************************************************************************)
(* A model of the label-compliance core of the LATAM -> FDA auditor:       *)
(*   src/app.py            AllergenDetector, CompleteLabelValidator, the   *)
(*                         polyol correction block of the Complete Label   *)
(*                         Compliance engine, FDALabelValidator,           *)
(*                         EnhancedFDAConverter                            *)
(*   src/fda_validator.py  FDALabelValidator, EnhancedFDAConverter         *)
(*                                                                         *)
(* Text is a sequence of one-character strings, so that lower(), the `in`  *)
(* substring test and the \b word boundaries of `re` are computed on the   *)
(* characters.  A JSON value is a tagged record: Absent (the key is not in *)
(* the dict), Null (None), Str(chars), Bool(b), List(n) (a list of n       *)
(* items) or Dict(d).                                                       *)
(***************************************************************************)
EXTENDS Integers, Sequences, FiniteSets, TLC

(***************************************************************************)
(* JSON values                                                             *)
(***************************************************************************)
Absent == [t |-> "absent"]
Null == [t |-> "null"]
Str(s) == [t |-> "str", s |-> s]
Bool(b) == [t |-> "bool", b |-> b]
List(n) == [t |-> "list", n |-> n]
Dict(d) == [t |-> "dict", d |-> d]

\* Python truthiness of a JSON value: None, "", [], False and {} are falsy.
Truthy(v) ==
    CASE v.t = "str" -> v.s # << >>
      [] v.t = "bool" -> v.b
      [] v.t = "list" -> v.n > 0
      [] v.t = "dict" -> \E k \in DOMAIN v.d : v.d[k] # Absent
      [] OTHER -> FALSE

\* dict.get(key, default): the default only when the key is not in the dict.
Get(d, key, default) == IF d[key] = Absent THEN default ELSE d[key]

\* a or b
Or(a, b) == IF Truthy(a) THEN a ELSE b

(***************************************************************************)
(* Text                                                                    *)
(***************************************************************************)
UpperCase == <<"A", "B", "C", "D", "E", "F", "G", "H", "I", "J", "K", "L", "M", "N", "O", "P", "Q", "R", "S", "T", "U", "V", "W", "X", "Y", "Z">>
LowerCase == <<"a", "b", "c", "d", "e", "f", "g", "h", "i", "j", "k", "l", "m", "n", "o", "p", "q", "r", "s", "t", "u", "v", "w", "x", "y", "z">>
Digits == {"0", "1", "2", "3", "4", "5", "6", "7", "8", "9"}
AccentedLower == {"á", "é", "í", "ó", "ú", "ñ"}

Range(s) == {s[i] : i \in DOMAIN s}

\* the lower-case letter of each upper-case letter
LowerOf == [c \in Range(UpperCase) |-> LowerCase[CHOOSE i \in DOMAIN UpperCase : UpperCase[i] = c]]

LowerChar(c) == IF c \in DOMAIN LowerOf THEN LowerOf[c] ELSE c

\* str.lower()
Lower(s) == [i \in DOMAIN s |-> LowerChar(s[i])]

\* needle in hay
Contains(hay, needle) ==
    \/ needle = << >>
    \/ \E i \in 1..(Len(hay) - Len(needle) + 1) :
          hay[i] = needle[1] /\ SubSeq(hay, i, i + Len(needle) - 1) = needle

\* any(kw in text for kw in keywords)
AnyIn(keywords, text) == \E k \in DOMAIN keywords : Contains(text, keywords[k])

\* \w of a str pattern: letters, digits and the underscore
WordChars == Range(UpperCase) \cup Range(LowerCase) \cup AccentedLower \cup Digits \cup {"_"}

IsWordChar(c) == c \in WordChars

\* \b between position p and p + 1 of text (p = 0: the start; p = Len: the end)
WordBoundary(text, p) ==
    LET before == p >= 1 /\ IsWordChar(text[p])
        after == p < Len(text) /\ IsWordChar(text[p + 1])
    IN  before # after

(***************************************************************************)
(* AllergenDetector                                                        *)
(***************************************************************************)
MAJOR_ALLERGENS == <<
    [type |-> <<"m", "i", "l", "k">>,
     keywords |-> << <<"m", "i", "l", "k">>,
                   <<"c", "r", "e", "a", "m">>,
                   <<"b", "u", "t", "t", "e", "r">>,
                   <<"c", "h", "e", "e", "s", "e">>,
                   <<"w", "h", "e", "y">>,
                   <<"c", "a", "s", "e", "i", "n">>,
                   <<"l", "a", "c", "t", "o", "s", "e">>,
                   <<"g", "h", "e", "e">> >>],
    [type |-> <<"e", "g", "g", "s">>,
     keywords |-> << <<"e", "g", "g">>,
                   <<"e", "g", "g", "s">>,
                   <<"a", "l", "b", "u", "m", "i", "n">>,
                   <<"l", "y", "s", "o", "z", "y", "m", "e">>,
                   <<"m", "a", "y", "o", "n", "n", "a", "i", "s", "e">> >>],
    [type |-> <<"f", "i", "s", "h">>,
     keywords |-> << <<"f", "i", "s", "h">>,
                   <<"a", "n", "c", "h", "o", "v", "i", "e", "s">>,
                   <<"b", "a", "s", "s">>,
                   <<"c", "o", "d">>,
                   <<"s", "a", "l", "m", "o", "n">>,
                   <<"t", "u", "n", "a">>,
                   <<"t", "i", "l", "a", "p", "i", "a">> >>],
    [type |-> <<"s", "h", "e", "l", "l", "f", "i", "s", "h">>,
     keywords |-> << <<"c", "r", "a", "b">>,
                   <<"l", "o", "b", "s", "t", "e", "r">>,
                   <<"s", "h", "r", "i", "m", "p">>,
                   <<"p", "r", "a", "w", "n", "s">>,
                   <<"c", "l", "a", "m", "s">>,
                   <<"m", "u", "s", "s", "e", "l", "s">>,
                   <<"o", "y", "s", "t", "e", "r", "s">>,
                   <<"s", "c", "a", "l", "l", "o", "p", "s">> >>],
    [type |-> <<"t", "r", "e", "e", "_", "n", "u", "t", "s">>,
     keywords |-> << <<"a", "l", "m", "o", "n", "d">>,
                   <<"c", "a", "s", "h", "e", "w">>,
                   <<"w", "a", "l", "n", "u", "t">>,
                   <<"p", "e", "c", "a", "n">>,
                   <<"p", "i", "s", "t", "a", "c", "h", "i", "o">>,
                   <<"h", "a", "z", "e", "l", "n", "u", "t">>,
                   <<"m", "a", "c", "a", "d", "a", "m", "i", "a">> >>],
    [type |-> <<"p", "e", "a", "n", "u", "t", "s">>,
     keywords |-> << <<"p", "e", "a", "n", "u", "t">>,
                   <<"p", "e", "a", "n", "u", "t", "s">>,
                   <<"g", "r", "o", "u", "n", "d", "n", "u", "t">> >>],
    [type |-> <<"w", "h", "e", "a", "t">>,
     keywords |-> << <<"w", "h", "e", "a", "t">>,
                   <<"f", "l", "o", "u", "r">>,
                   <<"d", "u", "r", "u", "m">>,
                   <<"s", "e", "m", "o", "l", "i", "n", "a">>,
                   <<"s", "p", "e", "l", "t">> >>],
    [type |-> <<"s", "o", "y", "b", "e", "a", "n", "s">>,
     keywords |-> << <<"s", "o", "y">>,
                   <<"s", "o", "y", "a">>,
                   <<"s", "o", "y", "b", "e", "a", "n">>,
                   <<"t", "o", "f", "u">>,
                   <<"t", "e", "m", "p", "e", "h">>,
                   <<"l", "e", "c", "i", "t", "h", "i", "n">> >>],
    [type |-> <<"s", "e", "s", "a", "m", "e">>,
     keywords |-> << <<"s", "e", "s", "a", "m", "e">>,
                   <<"t", "a", "h", "i", "n", "i">> >>] >>

\* The search without the two \b of the pattern: keyword in text.
SubstringSearch(keyword, text) == Contains(text, keyword)

\* re.search(r'\b' + re.escape(keyword) + r'\b', text)
KeywordSearch(keyword, text) ==
    \E i \in 1..(Len(text) - Len(keyword) + 1) :
        /\ text[i] = keyword[1]
        /\ WordBoundary(text, i - 1)
        /\ SubSeq(text, i, i + Len(keyword) - 1) = keyword
        /\ WordBoundary(text, i + Len(keyword) - 1)

\* the list `found` of one allergen type: its keywords, in the table's order
FoundKeywords(keywords, text_lower) ==
    SelectSeq(keywords, LAMBDA kw : KeywordSearch(kw, text_lower))

\* The dict found_allergens as a function over the indices of MAJOR_ALLERGENS:
\* an empty list stands for a type that is not a key of the dict.
detect_allergens(ingredient_text) ==
    LET ingredient_text_lower == Lower(ingredient_text)
    IN  [a \in DOMAIN MAJOR_ALLERGENS |->
            FoundKeywords(MAJOR_ALLERGENS[a].keywords, ingredient_text_lower)]

NoAllergens == [a \in DOMAIN MAJOR_ALLERGENS |-> << >>]

(***************************************************************************)
(* Numbers.  An amount is an integer count of Unit-ths (five decimals), so *)
(* float("0.5") is 50000.  float() is modelled on its plain decimal forms  *)
(* (optional sign, digits, at most one point, surrounding blanks); every   *)
(* other text raises ValueError.                                           *)
(***************************************************************************)
Unit == 10^5

Num(n) == [t |-> "num", n |-> n]

DigitChars == <<"0", "1", "2", "3", "4", "5", "6", "7", "8", "9">>

DigitVal(c) == (CHOOSE i \in DOMAIN DigitChars : DigitChars[i] = c) - 1

RECURSIVE IntOf(_)
IntOf(ds) ==
    IF ds = << >> THEN 0
    ELSE IntOf(SubSeq(ds, 1, Len(ds) - 1)) * 10 + DigitVal(ds[Len(ds)])

\* the value of the digits after the point, in Unit-ths
RECURSIVE FracOf(_, _)
FracOf(ds, weight) ==
    IF ds = << >> \/ weight = 0 THEN 0
    ELSE DigitVal(ds[1]) * weight + FracOf(Tail(ds), weight \div 10)

RECURSIVE Strip(_)
Strip(s) ==
    IF s # << >> /\ s[1] = " " THEN Strip(Tail(s))
    ELSE IF s # << >> /\ s[Len(s)] = " " THEN Strip(SubSeq(s, 1, Len(s) - 1))
    ELSE s

ValueError == [exc |-> "ValueError", v |-> 0]
TypeError == [exc |-> "TypeError", v |-> 0]
Parsed(n) == [exc |-> "none", v |-> n]

\* float(text) of a str
ParseFloat(text) ==
    LET Split(body, negative, points) ==
            LET Parts(whole, frac) ==
                    IF \/ Cardinality(points) > 1
                       \/ Len(whole) + Len(frac) = 0
                       \/ \E i \in DOMAIN body : body[i] \notin Digits \cup {"."}
                    THEN ValueError
                    ELSE IF negative
                    THEN Parsed(0 - (IntOf(whole) * Unit + FracOf(frac, Unit \div 10)))
                    ELSE Parsed(IntOf(whole) * Unit + FracOf(frac, Unit \div 10))
                At(point) == Parts(SubSeq(body, 1, point - 1),
                                   SubSeq(body, point + 1, Len(body)))
            IN  At(IF points = {} THEN Len(body) + 1 ELSE CHOOSE i \in points : TRUE)
        Unsigned(body, negative) == Split(body, negative, {i \in DOMAIN body : body[i] = "."})
        Stripped(s) ==
            IF s # << >> /\ s[1] \in {"-", "+"} THEN Unsigned(Tail(s), s[1] = "-")
            ELSE Unsigned(s, FALSE)
    IN  Stripped(Strip(text))

\* float(v) of a JSON value
Float(v) ==
    CASE v.t = "str" -> ParseFloat(v.s)
      [] v.t = "num" -> Parsed(v.n)
      [] v.t = "bool" -> Parsed(IF v.b THEN Unit ELSE 0)
      [] OTHER -> TypeError

\* float(v) of the texts Python reads as a double that is no number or no finite one:
\* nan, inf and infinity, in any case, signed or not.  "finite" for every other value;
\* ParseFloat and Float are applied to those only.
NonFinite(v) ==
    LET Named(body, negative) ==
            IF body = <<"n", "a", "n">> THEN "nan"
            ELSE IF body \in {<<"i", "n", "f">>, <<"i", "n", "f", "i", "n", "i", "t", "y">>}
            THEN (IF negative THEN "-inf" ELSE "inf")
            ELSE "finite"
        Signed(s) ==
            IF s # << >> /\ s[1] \in {"-", "+"} THEN Named(Tail(s), s[1] = "-")
            ELSE Named(s, FALSE)
    IN  IF v.t = "str" THEN Signed(Lower(Strip(v.s))) ELSE "finite"

RECURSIVE DigitsOf(_)
DigitsOf(n) ==
    IF n < 10 THEN <<DigitChars[n + 1]>>
    ELSE DigitsOf(n \div 10) \o <<DigitChars[(n % 10) + 1]>>

RECURSIVE FracDigits(_, _)
FracDigits(f, weight) ==
    IF weight = 0 \/ f = 0 THEN << >>
    ELSE <<DigitChars[(f \div weight) + 1]>> \o FracDigits(f % weight, weight \div 10)

\* str(x) of a float x: the shortest decimal, always with a point ("12.0")
FormatFloat(x) ==
    LET m == IF x < 0 THEN 0 - x ELSE x
        f == FracDigits(m % Unit, Unit \div 10)
    IN  (IF x < 0 THEN <<"-">> ELSE << >>)
            \o DigitsOf(m \div Unit) \o <<".">> \o (IF f = << >> THEN <<"0">> ELSE f)

(***************************************************************************)
(* FDALabelValidator and EnhancedFDAConverter.  The class is written twice:*)
(* src/fda_validator.py checks the required nutrients and rounds calories, *)
(* total fat and saturated fat before the calorie check; the copy in       *)
(* src/app.py does neither.  Implementation names the copy.                *)
(***************************************************************************)
Implementations == {"app.py", "fda_validator.py"}

numeric_fields == <<
    "calories", "total_fat_g", "saturated_fat_g", "trans_fat_g",
    "cholesterol_mg", "sodium_mg", "total_carb_g", "fiber_g",
    "total_sugars_g", "added_sugars_g", "protein_g",
    "vitamin_d_mcg", "calcium_mg", "iron_mg", "potassium_mg" >>

ConverterKeys == Range(numeric_fields) \cup {"serving_size_metric"}

\* Python's round(x) of the non-negative double num / den: the nearest integer,
\* a tie going to the even one.
RoundHalfEven(num, den) ==
    LET q == num \div den
        r == num % den
    IN  IF 2 * r < den THEN q
        ELSE IF 2 * r > den THEN q + 1
        ELSE IF q % 2 = 0 THEN q ELSE q + 1

\* FDALabelValidator.validate_required_nutrients: the fields not in data, or None
validate_required_nutrients(data) ==
    SelectSeq(numeric_fields, LAMBDA f : data[f] \in {Absent, Null})

\* One field of _validate_numeric_values: the text it is replaced by, and the
\* error appended, if any.
NumericValue(value) ==
    LET Checked(x) ==
            IF x.exc # "none"
            THEN [value |-> Str(<<"0">>), error |-> "Invalid numeric value for"]
            ELSE IF x.v < 0 THEN [value |-> Str(<<"0">>), error |-> "cannot be negative"]
            ELSE [value |-> Str(FormatFloat(x.v)), error |-> "none"]
    IN  IF value = Absent \/ value = Null \/ value = Str(<< >>)
        THEN [value |-> Str(<<"0">>), error |-> "none"]
        ELSE Checked(Float(value))

\* EnhancedFDAConverter._validate_numeric_values: corrected, and what it appends to
\* self.errors, in the order of numeric_fields
validate_numeric_values(data) ==
    LET Errors(bad) ==
            [i \in DOMAIN bad |-> [text |-> NumericValue(data[bad[i]]).error, field |-> bad[i]]]
    IN  [corrected |-> [k \in DOMAIN data |->
                           IF k \in Range(numeric_fields)
                           THEN NumericValue(data[k]).value ELSE data[k]],
         errors |-> Errors(SelectSeq(numeric_fields,
                                     LAMBDA f : NumericValue(data[f]).error # "none"))]

\* FDALabelValidator.ROUNDING_RULES: per nutrient type the rows (min, max, increment),
\* in Unit-ths; Inf is float('inf').
Inf == 0 - 1
ROUNDING_RULES ==
    [calories |-> << <<0, 5 * Unit, 0>>, <<5 * Unit, 50 * Unit, 5 * Unit>>,
                     <<50 * Unit, Inf, 10 * Unit>> >>,
     total_fat |-> << <<0, Unit \div 2, 0>>, <<Unit \div 2, 5 * Unit, Unit \div 2>>,
                      <<5 * Unit, Inf, Unit>> >>,
     saturated_fat |-> << <<0, Unit \div 2, 0>>, <<Unit \div 2, 5 * Unit, Unit \div 2>>,
                          <<5 * Unit, Inf, Unit>> >>,
     cholesterol |-> << <<0, 2 * Unit, 0>>, <<2 * Unit, 5 * Unit, 5 * Unit>>,
                        <<5 * Unit, Inf, 5 * Unit>> >>,
     sodium |-> << <<0, 5 * Unit, 0>>, <<5 * Unit, 140 * Unit, 5 * Unit>>,
                   <<140 * Unit, Inf, 10 * Unit>> >>,
     carbs |-> << <<0, Unit \div 2, 0>>, <<Unit \div 2, Inf, Unit>> >>,
     protein |-> << <<0, Unit \div 2, 0>>, <<Unit \div 2, Inf, Unit>> >>]

\* FDALabelValidator.round_by_fda_rules of a value >= 0 and a type of the table: the
\* number returned, and whether it is a float (an int times the increment 0.5) or an
\* int (the literal 0, or an int times an int increment).
round_by_fda_rules(value, nutrient_type) ==
    LET Rounded(increment) ==
            IF increment = 0 THEN [v |-> 0, float |-> FALSE]
            ELSE [v |-> RoundHalfEven(value, increment) * increment,
                  float |-> increment % Unit # 0]
        First(rules, hits) == Rounded(rules[CHOOSE i \in hits : \A j \in hits : i <= j][3])
        Matching(rules) ==
            First(rules, {i \in DOMAIN rules :
                            rules[i][1] <= value /\ (rules[i][2] = Inf \/ value < rules[i][2])})
    IN  Matching(ROUNDING_RULES[nutrient_type])

\* str(x) of an int x >= 0
FormatInt(x) == DigitsOf(x \div Unit)

\* EnhancedFDAConverter._apply_rounding_rules (fda_validator.py), on a record whose
\* numeric fields _validate_numeric_values has made texts of floats >= 0
apply_rounding_rules(data) ==
    LET text(r) == Str(IF r.float THEN FormatFloat(r.v) ELSE FormatInt(r.v))
        rounded(field, nutrient_type) ==
            round_by_fda_rules(ParseFloat(data[field].s).v, nutrient_type)
    IN  [data EXCEPT !["calories"] = Str(FormatInt(rounded("calories", "calories").v)),
                     !["total_fat_g"] = text(rounded("total_fat_g", "total_fat")),
                     !["saturated_fat_g"] = text(rounded("saturated_fat_g", "saturated_fat"))]

\* floor(log2(x)) of a rational x = num / den >= 1
RECURSIVE Log2Floor(_, _)
Log2Floor(num, den) == IF num < 2 * den THEN 0 ELSE 1 + Log2Floor(num, 2 * den)

\* 2^n mod 5
PowerOfTwoMod5(n) == <<1, 2, 4, 3>>[(n % 4) + 1]

\* upper_bound = calculated * (1 + tolerance) is a product of doubles, and 1 + 0.15 is
\* the double just below 1.15 (1.15 - 0.4 ulp).  With u the spacing of the doubles at
\* 1.15 * calculated, the exact bound is K + j/5 spacings (K an integer) and the product
\* lies d = 0.4 * calculated / 2^e spacings below it, 0.34 < d < 0.7.  The product
\* rounds to the double of the exact bound when j is 1 or 2, or j is 0 and d <= 1/2;
\* otherwise to the double below (100 * 1.15 = 114.99999999999999).
UpperBoundAttained(calculated) ==
    LET e == Log2Floor(23 * calculated, 20)
        j == (23 * calculated * PowerOfTwoMod5(50 - e)) % 5
    IN  calculated <= 0 \/ j \in {1, 2} \/ (j = 0 /\ 4 * calculated <= 5 * (2^e))

\* lower_bound <= stated_calories <= upper_bound, for an integer calculated and a
\* stated amount in Unit-ths.  The lower bound, calculated * (1 - tolerance), is
\* never above the double of 0.85 * calculated.
WithinTolerance(calculated, stated) ==
    /\ 85 * calculated * (Unit \div 100) <= stated
    /\ \/ stated < 115 * calculated * (Unit \div 100)
       \/ stated = 115 * calculated * (Unit \div 100) /\ UpperBoundAttained(calculated)

\* FDALabelValidator.validate_calorie_calculation: (is_valid, message, calculated)
validate_calorie_calculation(data) ==
    LET Verdict(stated_calories, calculated) ==
            IF WithinTolerance(calculated, stated_calories)
            THEN [is_valid |-> TRUE,
                  message |-> [text |-> "Calorie calculation verified",
                               stated |-> 0, calculated |-> 0],
                  calculated |-> calculated]
            ELSE [is_valid |-> FALSE,
                  message |-> [text |-> "Calorie mismatch", stated |-> stated_calories,
                               calculated |-> calculated],
                  calculated |-> calculated]
        Floats(fat_g, carb_g, protein_g, stated_calories) ==
            IF \E x \in {fat_g, carb_g, protein_g, stated_calories} : x.exc # "none"
            THEN [is_valid |-> FALSE,
                  message |-> [text |-> "Error validating calories",
                               stated |-> 0, calculated |-> 0],
                  calculated |-> 0]
            ELSE Verdict(stated_calories.v,
                         RoundHalfEven((fat_g.v * 9) + (carb_g.v * 4) + (protein_g.v * 4),
                                       Unit))
    IN  Floats(Float(Get(data, "total_fat_g", Num(0))),
               Float(Get(data, "total_carb_g", Num(0))),
               Float(Get(data, "protein_g", Num(0))),
               Float(Get(data, "calories", Num(0))))

\* floor(log2(x)) of a rational x = num / den > 0
FloorLog2(num, den) ==
    IF num >= den THEN Log2Floor(num, den)
    ELSE LET e == Log2Floor(den, num)
         IN  IF num * (2^e) = den THEN 0 - e ELSE 0 - (e + 1)

\* (x * 2^n) mod N, for 0 <= x < N
RECURSIVE TimesPowerOfTwoMod(_, _, _)
TimesPowerOfTwoMod(x, n, N) ==
    IF n = 0 THEN x % N ELSE TimesPowerOfTwoMod((2 * x) % N, n - 1, N)

\* the remainder r of a division by N, taken in (-N/2, N/2]
Centered(r, N) == IF 2 * r <= N THEN r ELSE r - N

\* percent = (amount / dv) * 100 is a quotient and a product of doubles.  It is within
\* 1e-12 of the exact percent, so round(percent) is the integer nearest to the exact
\* percent unless that lies halfway between m and m + 1: amount = (2m + 1) * dv / 200.
\* Then, with M0 / 2^s0 the double of the amount (c0 / 200 its rounding remainder),
\* M1 / 2^s1 the double of the quotient (c1 / dv its remainder) and 2^-t the spacing
\* of the doubles at m + 1/2, the product 100 * quotient lies -X / Y spacings off
\* m + 1/2, and the double of the product is m + 1/2 itself when that is at most half a
\* spacing (a quarter below 0.5, where the doubles are twice as dense).
\* The result: 1 for a percent above m + 1/2, -1 below, 0 for m + 1/2 itself.
HalfwayPercent(m, dv) ==
    LET A == (2 * m + 1) * dv
        s0 == 52 - FloorLog2(A, 200)
        s1 == 52 - FloorLog2(2 * m + 1, 200)
        t == 52 - FloorLog2(2 * m + 1, 2)
        Off(X, Y) ==
            IF 0 - (2 * X) > Y THEN 1
            ELSE IF m = 0 THEN (IF 4 * X > Y THEN 0 - 1 ELSE 0)
            ELSE (IF 2 * X > Y THEN 0 - 1 ELSE 0)
        Quotient(c0, M0) ==
            Off(c0 * (2^(s1 - s0 - 1))
                    + 100 * Centered(TimesPowerOfTwoMod(M0 % dv, s1 - s0, dv), dv),
                dv * (2^(s1 - t)))
        Amount(R) ==
            Quotient(Centered(R % 200, 200), (R - Centered(R % 200, 200)) \div 200)
    IN  Amount(TimesPowerOfTwoMod(A % (200 * dv), s0, 200 * dv))

\* round(percent) for the amount in Unit-ths and the reference value dv
RoundPercent(amount, dv) ==
    LET den == dv * (Unit \div 100)
        Rounded(size) ==
            IF 2 * (size % den) = den /\ HalfwayPercent(size \div den, dv) # 0
            THEN (IF HalfwayPercent(size \div den, dv) > 0
                  THEN (size \div den) + 1 ELSE size \div den)
            ELSE RoundHalfEven(size, den)
    IN  IF amount >= 0 THEN Rounded(amount) ELSE 0 - Rounded(0 - amount)

FDA_DAILY_VALUES ==
    [total_fat |-> 78, saturated_fat |-> 20, cholesterol |-> 300, sodium |-> 2300,
     total_carb |-> 275, fiber |-> 28, added_sugars |-> 50, protein |-> 50,
     vitamin_d |-> 20, calcium |-> 1300, iron |-> 18, potassium |-> 4700]

\* calculate_percent_dv with amount % dv in the place of (amount / dv) * 100
calculate_percent_dv_modulo(nutrient, amount) ==
    IF nutrient \notin DOMAIN FDA_DAILY_VALUES THEN 0
    ELSE RoundHalfEven(amount % (FDA_DAILY_VALUES[nutrient] * Unit), Unit)

\* calculate_percent_dv with int(percent) in the place of round(percent)
calculate_percent_dv_truncated(nutrient, amount) ==
    IF nutrient \notin DOMAIN FDA_DAILY_VALUES THEN 0
    ELSE amount \div (FDA_DAILY_VALUES[nutrient] * (Unit \div 100))

\* FDALabelValidator.calculate_percent_dv: round((amount / dv) * 100), the amount in
\* Unit-ths
calculate_percent_dv(nutrient, amount) ==
    IF nutrient \notin DOMAIN FDA_DAILY_VALUES THEN 0
    ELSE LET dv == FDA_DAILY_VALUES[nutrient]
         IN  IF dv = 0 THEN 0 ELSE RoundPercent(amount, dv)

\* the mappings of _calculate_all_dv: app.py has the twelve nutrients of the table,
\* fda_validator.py leaves protein out
DvMappings(implementation) ==
    LET common == << <<"total_fat", "total_fat_g">>, <<"saturated_fat", "saturated_fat_g">>,
                     <<"cholesterol", "cholesterol_mg">>, <<"sodium", "sodium_mg">>,
                     <<"total_carb", "total_carb_g">>, <<"fiber", "fiber_g">>,
                     <<"added_sugars", "added_sugars_g">> >>
        micro == << <<"vitamin_d", "vitamin_d_mcg">>, <<"calcium", "calcium_mg">>,
                    <<"iron", "iron_mg">>, <<"potassium", "potassium_mg">> >>
    IN  IF implementation = "app.py"
        THEN common \o << <<"protein", "protein_g">> >> \o micro
        ELSE common \o micro

\* EnhancedFDAConverter._calculate_all_dv: the dict dv_values, as the sequence of its
\* (nutrient, percent) items
calculate_all_dv(implementation, data) ==
    LET Percent(nutrient, amount) ==
            <<nutrient, IF amount.exc # "none" THEN 0
                        ELSE calculate_percent_dv(nutrient, amount.v)>>
        Items(present) ==
            [i \in DOMAIN present |-> Percent(present[i][1], Float(data[present[i][2]]))]
    IN  Items(SelectSeq(DvMappings(implementation), LAMBDA m : data[m[2]] # Absent))

\* Step 4 with the auto-correction the source keeps commented out
\* (corrected_data['calories'] = str(calculated)): the estimate replaces the
\* declared calories on a mismatch.
CalorieStepAutoCorrect(corrected_data, warnings, errors, calorie) ==
    IF calorie.is_valid
    THEN [data |-> corrected_data, warnings |-> warnings, errors |-> errors]
    ELSE [data |-> [corrected_data EXCEPT !["calories"] = Str(DigitsOf(calorie.calculated))],
          warnings |-> Append(warnings, calorie.message), errors |-> errors]

\* Step 4 of extract_and_validate: is_valid, message, calculated =
\* validate_calorie_calculation(corrected_data); if not is_valid: the message goes to
\* self.warnings.  What the step leaves: corrected_data, self.warnings, self.errors.
CalorieStep(corrected_data, warnings, errors, calorie) ==
    [data |-> corrected_data,
     warnings |-> IF calorie.is_valid THEN warnings ELSE Append(warnings, calorie.message),
     errors |-> errors]

\* EnhancedFDAConverter.extract_and_validate: the dict it returns, with the lists
\* self.warnings and self.errors it has built.  The serving size text
\* (serving_size_us) is not part of this record.
extract_and_validate(implementation, nutrition_data) ==
    LET Result(step) ==
            [data |-> step.data,
             percent_dv |-> calculate_all_dv(implementation, step.data),
             validation_report |->
                [is_compliant |-> Len(step.errors) = 0, warnings |-> step.warnings,
                 errors |-> step.errors]]
        Rounded(corrected_data, warnings, errors) ==
            Result(CalorieStep(corrected_data, warnings, errors,
                               validate_calorie_calculation(corrected_data)))
        Numeric(checked, warnings) ==
            Rounded(IF implementation = "fda_validator.py"
                    THEN apply_rounding_rules(checked.corrected) ELSE checked.corrected,
                    warnings, checked.errors)
        Required(missing) ==
            Numeric(validate_numeric_values(nutrition_data),
                    [i \in DOMAIN missing |->
                        [text |-> "Missing required nutrient", field |-> missing[i]]])
    IN  Required(IF implementation = "fda_validator.py"
                 THEN validate_required_nutrients(nutrition_data) ELSE << >>)

(***************************************************************************)
(* FDALabelValidator.convert_metric_to_us_serving, the same in both files. *)
(***************************************************************************)
conversions == <<
    <<<<"3", "0", "g">>, <<"2", " ", "t", "b", "s", "p", " ", "(", "3", "0", "g", ")">>>>, <<<<"2", "8", "g">>, <<"1", " ", "o", "z", " ", "(", "2", "8", "g", ")">>>>,
    <<<<"1", "5", "g">>, <<"1", " ", "t", "b", "s", "p", " ", "(", "1", "5", "g", ")">>>>, <<<<"5", "0", "g">>, <<"1", "/", "4", " ", "c", "u", "p", " ", "(", "5", "0", "g", ")">>>>,
    <<<<"1", "0", "0", "g">>, <<"3", ".", "5", " ", "o", "z", " ", "(", "1", "0", "0", "g", ")">>>>, <<<<"1", "5", "0", "g">>, <<"5", ".", "3", " ", "o", "z", " ", "(", "1", "5", "0", "g", ")">>>>,
    <<<<"2", "0", "0", "g">>, <<"7", " ", "o", "z", " ", "(", "2", "0", "0", "g", ")">>>>, <<<<"2", "2", "7", "g">>, <<"8", " ", "o", "z", " ", "(", "2", "2", "7", "g", ")">>>>,
    <<<<"2", "4", "0", "m", "l">>, <<"1", " ", "c", "u", "p", " ", "(", "2", "4", "0", "m", "L", ")">>>>, <<<<"2", "5", "0", "m", "l">>, <<"1", " ", "c", "u", "p", " ", "(", "2", "5", "0", "m", "L", ")">>>>,
    <<<<"1", "2", "0", "m", "l">>, <<"1", "/", "2", " ", "c", "u", "p", " ", "(", "1", "2", "0", "m", "L", ")">>>>, <<<<"1", "8", "0", "m", "l">>, <<"3", "/", "4", " ", "c", "u", "p", " ", "(", "1", "8", "0", "m", "L", ")">>>>,
    <<<<"1", "5", "m", "l">>, <<"1", " ", "t", "b", "s", "p", " ", "(", "1", "5", "m", "L", ")">>>>, <<<<"5", "m", "l">>, <<"1", " ", "t", "s", "p", " ", "(", "5", "m", "L", ")">>>>,
    <<<<"3", "5", "5", "m", "l">>, <<"1", "2", " ", "f", "l", " ", "o", "z", " ", "(", "3", "5", "5", "m", "L", ")">>>>, <<<<"5", "0", "0", "m", "l">>, <<"2", " ", "c", "u", "p", "s", " ", "(", "5", "0", "0", "m", "L", ")">>>> >>

\* how many characters of s from position p on are in chars
RECURSIVE RunLength(_, _, _)
RunLength(s, p, chars) ==
    IF p <= Len(s) /\ s[p] \in chars THEN 1 + RunLength(s, p + 1, chars) ELSE 0

\* re.match(r'(\d+\.?\d*)\s*(g|ml)', s): the groups, or matched = FALSE
MatchAmountAndUnit(s) ==
    LET NoMatch == [matched |-> FALSE, amount |-> << >>, unit |-> << >>]
        UnitFrom(number, p) ==
            IF p <= Len(s) /\ s[p] = "g"
            THEN [matched |-> TRUE, amount |-> number, unit |-> <<"g">>]
            ELSE IF p + 1 <= Len(s) /\ s[p] = "m" /\ s[p + 1] = "l"
            THEN [matched |-> TRUE, amount |-> number, unit |-> <<"m", "l">>]
            ELSE NoMatch
        Number(last) == UnitFrom(SubSeq(s, 1, last), last + 1 + RunLength(s, last + 1, {" "}))
        Fraction(whole) ==
            IF whole + 1 <= Len(s) /\ s[whole + 1] = "."
            THEN Number(whole + 1 + RunLength(s, whole + 2, Digits))
            ELSE Number(whole)
    IN  IF RunLength(s, 1, Digits) = 0 THEN NoMatch ELSE Fraction(RunLength(s, 1, Digits))

\* the sign of the error of the double amount / 240, for an amount of T tenths whose
\* exact quotient is an odd number of two-hundredths: with M0 / 2^s0 the double of the
\* amount (c0 / 10 its rounding remainder) and c1 / 240 the remainder of the division,
\* the double is (c0 * 2^(s1 - s0) + 10 * c1) / (2400 * 2^s1) below the exact quotient
HalfwayCups(T) ==
    LET s0 == 52 - FloorLog2(T, 10)
        s1 == 52 - FloorLog2(T, 2400)
        Sign(x) == IF x > 0 THEN 0 - 1 ELSE IF x < 0 THEN 1 ELSE 0
        Quotient(c0, M0) ==
            Sign(c0 * (2^(s1 - s0))
                    + 10 * Centered(TimesPowerOfTwoMod(M0 % 240, s1 - s0, 240), 240))
        Dividend(R) ==
            Quotient(Centered(R % 10, 10), (R - Centered(R % 10, 10)) \div 10)
    IN  Dividend(TimesPowerOfTwoMod(T % 2400, s0, 2400))

\* round(amount / 240, 2) in hundredths: round() takes the double of the quotient as it
\* is, so a quotient that is exactly halfway goes where the double lies
RoundCups(amount) ==
    LET den == 240 * (Unit \div 100)
        m == amount \div den
        tenths == amount \div (Unit \div 10)
    IN  IF 2 * (amount % den) = den /\ HalfwayCups(tenths) # 0
        THEN (IF HalfwayCups(tenths) > 0 THEN m + 1 ELSE m)
        ELSE RoundHalfEven(amount, den)

\* f"{int(amount)}": the amount without its fraction
IntAmountText(amount, text) == DigitsOf(amount \div Unit)

\* convert_metric_to_us_serving(metric_str) of a str.  round(amount / 28.35, 1) and
\* round(amount / 29.57, 1) are the tenths nearest to the exact quotient: no amount
\* of at most three decimals has a quotient halfway between two tenths.
convert_metric_to_us_serving(metric_str) ==
    LET Tenths(n) == FormatFloat(n * (Unit \div 10))
        Hundredths(n) == FormatFloat(n * (Unit \div 100))
        Grams(amount, shown) ==
            IF amount <= 15 * Unit THEN <<"1", " ", "t", "b", "s", "p", " ", "(">> \o shown \o <<"g", ")">>
            ELSE IF amount <= 30 * Unit THEN <<"2", " ", "t", "b", "s", "p", " ", "(">> \o shown \o <<"g", ")">>
            ELSE IF amount <= 100 * Unit THEN <<"1", "/", "4", " ", "c", "u", "p", " ", "(">> \o shown \o <<"g", ")">>
            ELSE Tenths(RoundHalfEven(amount, 2835 * (Unit \div 1000)))
                    \o <<" ", "o", "z", " ", "(">> \o shown \o <<"g", ")">>
        Millilitres(amount, shown) ==
            IF amount <= 15 * Unit THEN <<"1", " ", "t", "b", "s", "p", " ", "(">> \o shown \o <<"m", "L", ")">>
            ELSE IF amount <= 120 * Unit
            THEN Hundredths(RoundCups(amount)) \o <<" ", "c", "u", "p", " ", "(">> \o shown \o <<"m", "L", ")">>
            ELSE Tenths(RoundHalfEven(amount, 2957 * (Unit \div 1000)))
                    \o <<" ", "f", "l", " ", "o", "z", " ", "(">> \o shown \o <<"m", "L", ")">>
        Household(match, amount) ==
            IF match.unit = <<"g">>
            THEN Grams(amount, IntAmountText(amount, match.amount))
            ELSE Millilitres(amount, IntAmountText(amount, match.amount))
        Matched(s, match) ==
            IF match.matched THEN Household(match, ParseFloat(match.amount).v)
            ELSE <<"1", " ", "s", "e", "r", "v", "i", "n", "g", " ", "(">> \o s \o <<")">>
        Lookup(s, hits) ==
            IF hits # {} THEN conversions[CHOOSE i \in hits : TRUE][2]
            ELSE Matched(s, MatchAmountAndUnit(s))
        Stripped(s) == Lookup(s, {i \in DOMAIN conversions : conversions[i][1] = s})
    IN  Stripped(Lower(Strip(metric_str)))

(***************************************************************************)
(* apply_fda_rounding_rules (src/app.py): the text shown on the label for  *)
(* an amount.  val is float(value) in Unit-ths; a comparison, val * 2,     *)
(* val / 5 and val / 10 are exact on amounts of at most five decimals, so  *)
(* round() is the nearest integer of the quotient, a tie going to the even *)
(* one.                                                                    *)
(***************************************************************************)
\* round(x) of the double num / den of either sign
RoundSigned(num, den) ==
    IF num >= 0 THEN RoundHalfEven(num, den) ELSE 0 - RoundHalfEven(0 - num, den)

\* str(int(n)) of a whole number n of either sign
IntText(n) == IF n < 0 THEN <<"-">> \o DigitsOf(0 - n) ELSE DigitsOf(n)

\* str(int(round(val / step) * step)), step a whole number of units
RoundToStep(val, step) == IntText(RoundSigned(val, step * Unit) * step)

\* rounded = round(val * 2) / 2, as str(int(rounded)) or f"{rounded:.1f}"
RoundToHalf(val) ==
    LET Shown(halves) ==
            IF halves % 2 = 0 THEN IntText(halves \div 2)
            ELSE FormatFloat(halves * (Unit \div 2))
    IN  Shown(RoundSigned(val * 2, Unit))

\* A fat-type rule without the collapse below 0.5: the nearest half-unit from 0 on.
FatRuleWithoutCollapse(val) ==
    IF val < 5 * Unit THEN RoundToHalf(val) ELSE RoundToStep(val, 1)

\* the branch of total_fat, of saturated_fat and of trans_fat
FatRule(val) ==
    IF 2 * val < Unit THEN <<"0">>
    ELSE IF val < 5 * Unit THEN RoundToHalf(val)
    ELSE RoundToStep(val, 1)
\* The calories rule with the step of 10 from 5 on.
CaloriesRuleStepTen(val) ==
    IF val < 5 * Unit THEN <<"0">> ELSE RoundToStep(val, 10)

\* the branch of calories
CaloriesRule(val) ==
    IF val < 5 * Unit THEN <<"0">>
    ELSE IF val <= 50 * Unit THEN RoundToStep(val, 5)
    ELSE RoundToStep(val, 10)

\* The cholesterol rule rounding to the nearest 5 from 2 on.
CholesterolRuleNearestFive(val) ==
    IF val < 2 * Unit THEN <<"0">> ELSE RoundToStep(val, 5)

\* the branch of cholesterol
CholesterolRule(val) ==
    IF val < 2 * Unit THEN <<"0">>
    ELSE IF val <= 5 * Unit THEN <<"5">>
    ELSE RoundToStep(val, 5)

\* The sodium rule with the step of 10 from 5 on.
SodiumRuleStepTen(val) ==
    IF val < 5 * Unit THEN <<"0">> ELSE RoundToStep(val, 10)

\* the branch of sodium
SodiumRule(val) ==
    IF val < 5 * Unit THEN <<"0">>
    ELSE IF val <= 140 * Unit THEN RoundToStep(val, 5)
    ELSE RoundToStep(val, 10)

\* the branches of the carbohydrates and sugars, of protein and of the vitamins and
\* minerals: 0 below 0.5, the nearest whole unit from there on
WholeUnitRule(val) ==
    IF 2 * val < Unit THEN <<"0">> ELSE RoundToStep(val, 1)

FatTypes == {"total_fat", "saturated_fat", "trans_fat"}

WholeUnitTypes ==
    {"total_carb", "fiber", "total_sugars", "added_sugars", "protein",
     "vitamin_d_mcg", "calcium_mg", "iron_mg", "potassium_mg"}

\* The call's outcome: the text returned, or the exception that leaves the function.
\* Only float(value) is inside the try.  On nan every comparison is false and the last
\* branch of the type ends in int(round(nan)), a ValueError; on inf it ends in
\* int(round(inf)), an OverflowError; -inf is below the first threshold of every
\* type the function names.
apply_fda_rounding_rules(value, nutrient_type) ==
    LET Text(text) == [raised |-> "none", text |-> text]
        Fails(exception) == [raised |-> exception, text |-> << >>]
        Rounded(val) ==
            IF val.exc # "none" THEN <<"0">>
            ELSE CASE nutrient_type = "calories" -> CaloriesRule(val.v)
                   [] nutrient_type \in FatTypes -> FatRule(val.v)
                   [] nutrient_type = "cholesterol" -> CholesterolRule(val.v)
                   [] nutrient_type = "sodium" -> SodiumRule(val.v)
                   [] nutrient_type \in WholeUnitTypes -> WholeUnitRule(val.v)
                   [] OTHER -> RoundToStep(val.v, 1)
    IN  CASE NonFinite(value) = "nan" -> Fails("ValueError")
          [] NonFinite(value) = "inf" -> Fails("OverflowError")
          [] NonFinite(value) = "-inf" ->
                IF nutrient_type \in {"calories", "cholesterol", "sodium"}
                                        \cup FatTypes \cup WholeUnitTypes
                THEN Text(<<"0">>) ELSE Fails("OverflowError")
          [] OTHER -> Text(Rounded(Float(value)))

(***************************************************************************)
(* CompleteLabelValidator.validate_complete_label                          *)
(*                                                                         *)
(* The method is a straight run of checks over four sections of the record.*)
(* Each check is an operator from the locals so far (the four issue lists, *)
(* changes_made, compliance_risks, detected) to the locals after it; exc   *)
(* names the exception that ended the run, and a check after it does       *)
(* nothing.  An issue is held by its 'requirement' title, a passed entry   *)
(* and a changes_made entry by the fixed part of its text.                 *)
(***************************************************************************)
PdpKeys ==
    {"product_name", "product_name_english", "net_quantity_original",
     "net_quantity_us", "net_quantity_metric", "chilean_sellos", "mexican_warnings"}
InfoKeys ==
    {"ingredient_list_original", "ingredient_list_english",
     "allergen_statement_original", "allergen_statement_english",
     "manufacturer_name", "manufacturer_address", "country_of_origin"}
LangKeys == {"primary_language"}
NutritionKeys ==
    {"present", "format", "sugar_alcohols_g", "added_sugars_g",
     "calories", "total_fat_g", "total_carb_g", "protein_g"}

EmptyDict(keys) == Dict([k \in keys |-> Absent])

\* extracted_data.get(name, {})
Section(extracted_data, name, keys) == Get(extracted_data, name, EmptyDict(keys))

\* section.get(key, default) of a section that is a dict
Field(section, key, default) == Get(section.d, key, default)

IsDict(v) == v.t = "dict"

\* The locals of validate_complete_label: the issue lists hold each issue's
\* 'requirement', the passed and changes_made lists their messages with the check
\* mark and any interpolated amount left out; exc is the exception raised, if any.
Locals0 ==
    [critical |-> << >>, major |-> << >>, minor |-> << >>, passed |-> << >>,
     changes_made |-> << >>, compliance_risks |-> << >>,
     detected |-> NoAllergens, exc |-> "none"]

Raise(l, e) == [l EXCEPT !.exc = e]

\* 1. Statement of Identity
StatementOfIdentity(l, pdp) ==
    IF l.exc # "none" THEN l
    ELSE IF ~IsDict(pdp) THEN Raise(l, "AttributeError")
    ELSE LET product_name == Field(pdp, "product_name", Null)
             english == Field(pdp, "product_name_english", Null)
         IN  IF ~Truthy(product_name)
             THEN [l EXCEPT
                     !.critical = Append(@, "Statement of Identity (21 CFR 101.3)"),
                     !.compliance_risks = Append(@, "Missing Statement of Identity")]
             ELSE [l EXCEPT
                     !.passed = Append(@, "Statement of Identity present"),
                     !.changes_made =
                         IF Truthy(english) /\ product_name # english
                         THEN Append(@, "Translated product name") ELSE @]

HasDigit(s) == \E i \in DOMAIN s : s[i] \in Digits

us_units == << <<"o", "z">>, <<"l", "b">>, <<"f", "l", " ", "o", "z">> >>
metric_units == << <<"g">>, <<"k", "g">>, <<"m", "l">>, <<"l">> >>

\* 2. Net Quantity of Contents
NetQuantity(l, pdp) ==
    IF l.exc # "none" THEN l
    ELSE LET net_qty_original == Field(pdp, "net_quantity_original", Str(<< >>))
             net_qty_us == Field(pdp, "net_quantity_us", Null)
             net_qty_metric == Field(pdp, "net_quantity_metric", Null)
         IN  IF ~Truthy(net_qty_original)
             THEN [l EXCEPT
                     !.critical = Append(@, "Net Quantity Declaration (21 CFR 101.105)"),
                     !.compliance_risks = Append(@, "Missing Net Quantity")]
             ELSE LET has_us == Truthy(net_qty_us)
                                  \/ AnyIn(us_units, Lower(net_qty_original.s))
                      has_metric == Truthy(net_qty_metric)
                                      \/ AnyIn(metric_units, Lower(net_qty_original.s))
                      \* re.search(r'(\d+\.?\d*)', net_qty_metric), then 'kg' or 'g'
                      calculated == /\ Truthy(net_qty_metric)
                                    /\ HasDigit(net_qty_metric.s)
                                    /\ Contains(Lower(net_qty_metric.s), <<"g">>)
                      l1 == IF has_us THEN l
                            ELSE [l EXCEPT
                                    !.critical = Append(@, "Net Quantity - US Units Required"),
                                    !.compliance_risks =
                                        Append(@, "Missing US units in net quantity"),
                                    !.changes_made =
                                        IF calculated
                                        THEN Append(@, "Calculated US units") ELSE @]
                      l2 == IF has_metric THEN l1
                            ELSE [l1 EXCEPT
                                    !.major = Append(@, "Net Quantity - Metric Units")]
                  IN  IF has_us /\ has_metric
                      THEN [l2 EXCEPT
                              !.passed = Append(@, "Net quantity in both US and metric units")]
                      ELSE l2

validator_polyol_keywords == <<
    <<"m", "a", "l", "t", "i", "t", "o", "l">>, <<"s", "o", "r", "b", "i", "t", "o", "l">>, <<"x", "y", "l", "i", "t", "o", "l">>, <<"e", "r", "y", "t", "h", "r", "i", "t", "o", "l">>, <<"i", "s", "o", "m", "a", "l", "t">>,
    <<"m", "a", "n", "n", "i", "t", "o", "l">>, <<"l", "a", "c", "t", "i", "t", "o", "l">>, <<"p", "o", "l", "i", "o", "l", "e", "s">>, <<"p", "o", "l", "y", "o", "l", "s">>, <<"p", "o", "l", "i", "a", "l", "c", "o", "h", "o", "l", "e", "s">> >>

\* The polyol checks of the nutrition step (app.py 181-215), entered with the
\* ingredient text in hand.  The three float() calls are made in the order of
\* the code, and the first one that fails ends the run.
PolyolChecks(l, ingredients_text, nf_format, sugar_alcohols, added_sugars, origin_country) ==
    LET \* if added_sugars and float(added_sugars) > 0
        AddedVsAlcohols(l2, fa) ==
            IF l2.exc # "none" THEN l2
            ELSE IF ~Truthy(added_sugars) THEN l2
            ELSE IF fa.exc # "none" THEN Raise(l2, fa.exc)
            ELSE IF fa.v > 0
                 THEN [l2 EXCEPT
                         !.major = Append(@, "Added Sugars vs Sugar Alcohols"),
                         !.changes_made = Append(@,
                             "VERIFY: Product has polyols - ensure added sugars calculation excludes them")]
                 ELSE l2
        \* if not sugar_alcohols or float(sugar_alcohols) == 0
        Declaration(l1, fs) ==
            IF l1.exc # "none" THEN l1
            ELSE IF Truthy(sugar_alcohols) /\ fs.exc # "none" THEN Raise(l1, fs.exc)
            ELSE IF ~Truthy(sugar_alcohols) \/ fs.v = 0
                 THEN [l1 EXCEPT
                         !.major = Append(@, "Sugar Alcohols Declaration"),
                         !.changes_made = Append(@,
                             "WARNING: Polyols in ingredients - must be declared separately")]
                 ELSE l1
        \* if is_mexican or mexican_origin
        MexicanLabel(m, fa) ==
            IF ~Truthy(added_sugars) THEN m
            ELSE IF fa.exc # "none" THEN Raise(m, fa.exc)
            ELSE IF fa.v = 0
                 THEN [m EXCEPT !.passed = Append(@,
                         "Added sugars = 0g is correct for products with only polyols")]
                 ELSE m
        Checks(mexican, fa, fs) ==
            AddedVsAlcohols(
                Declaration(
                    IF ~mexican THEN l
                    ELSE MexicanLabel([l EXCEPT !.changes_made =
                                          Append(@, "MEXICAN LABEL: Polyols detected")], fa),
                    fs),
                fa)
    IN  IF AnyIn(validator_polyol_keywords, ingredients_text)
        THEN Checks(\/ Truthy(nf_format) /\ Contains(Lower(nf_format.s), <<"m", "e", "x", "i", "c", "a", "n">>)
                    \/ Truthy(origin_country)
                         /\ Contains(Lower(origin_country.s), <<"m", "e", "x", "i", "c", "o">>),
                    Float(added_sugars), Float(sugar_alcohols))
        ELSE l

\* 3. Nutrition Facts Label, when the panel is declared present (the else branch)
NutritionPanel(l, nutrition, info, origin_country) ==
    LET Polyols(l2, text, nf_format, sugar_alcohols, added_sugars) ==
            IF text.t # "str" THEN Raise(l2, "AttributeError")
            ELSE PolyolChecks(l2, Lower(text.s), nf_format,
                              sugar_alcohols, added_sugars, origin_country)
        Ingredients(l2, nf_format, sugar_alcohols, added_sugars) ==
            IF l2.exc # "none" THEN l2
            ELSE IF ~IsDict(info) THEN Raise(l2, "AttributeError")
            ELSE Polyols(l2, Or(Field(info, "ingredient_list_english", Null),
                                Field(info, "ingredient_list_original", Str(<< >>))),
                         nf_format, sugar_alcohols, added_sugars)
        \* if sugar_alcohols and float(sugar_alcohols) > 0
        Separated(l1, sugar_alcohols, fs) ==
            IF ~Truthy(sugar_alcohols) THEN l1
            ELSE IF fs.exc # "none" THEN Raise(l1, fs.exc)
            ELSE IF fs.v > 0
                 THEN [l1 EXCEPT
                         !.changes_made = Append(@,
                             "Identified sugar alcohols (polyols) - these are NOT added sugars"),
                         !.passed = Append(@,
                             "Sugar alcohols properly separated from added sugars")]
                 ELSE l1
        Format(nf_format) ==
            IF Truthy(nf_format) /\ nf_format.s \notin {<<"U", "S">>, <<"U", "n", "k", "n", "o", "w", "n">>}
            THEN [l EXCEPT
                    !.major = Append(@, "Nutrition Facts Format"),
                    !.changes_made = Append(@, "Converting to US FDA format")]
            ELSE [l EXCEPT !.passed = Append(@, "Nutrition Facts panel present")]
        Panel(nf_format, sugar_alcohols, added_sugars) ==
            Ingredients(Separated(Format(nf_format), sugar_alcohols, Float(sugar_alcohols)),
                        nf_format, sugar_alcohols, added_sugars)
    IN  Panel(Field(nutrition, "format", Str(<< >>)),
              Field(nutrition, "sugar_alcohols_g", Null),
              Field(nutrition, "added_sugars_g", Null))

\* A variant of check 3 that also compares the declared calories with the Atwater
\* estimate of the panel and files a mismatch as a critical issue.  The method has
\* no such comparison; the variant shows what the status would then depend on.
NutritionFactsWithCalorieCheck(l, nutrition, info, origin_country) ==
    IF l.exc # "none" THEN l
    ELSE IF ~IsDict(nutrition) THEN Raise(l, "AttributeError")
    ELSE IF ~Truthy(Field(nutrition, "present", Null))
    THEN [l EXCEPT
            !.critical = Append(@, "Nutrition Facts Panel (21 CFR 101.9)"),
            !.compliance_risks = Append(@, "Missing Nutrition Facts")]
    ELSE IF ~validate_calorie_calculation(nutrition.d).is_valid
    THEN NutritionPanel([l EXCEPT !.critical = Append(@, "Calorie mismatch")],
                        nutrition, info, origin_country)
    ELSE NutritionPanel(l, nutrition, info, origin_country)

\* 3. Nutrition Facts Label: the panel is declared present, or that is a critical issue
NutritionFacts(l, nutrition, info, origin_country) ==
    IF l.exc # "none" THEN l
    ELSE IF ~IsDict(nutrition) THEN Raise(l, "AttributeError")
    ELSE IF ~Truthy(Field(nutrition, "present", Null))
    THEN [l EXCEPT
            !.critical = Append(@, "Nutrition Facts Panel (21 CFR 101.9)"),
            !.compliance_risks = Append(@, "Missing Nutrition Facts")]
    ELSE NutritionPanel(l, nutrition, info, origin_country)

\* allergen_type.replace('_', ' ')
AllergenName(allergen_type) ==
    [i \in DOMAIN allergen_type |-> IF allergen_type[i] = "_" THEN " " ELSE allergen_type[i]]

\* missing_allergens: the detected types whose name is not in the statement
MissingAllergens(detected, allergen_text) ==
    SelectSeq([a \in DOMAIN MAJOR_ALLERGENS |-> a],
              LAMBDA a : /\ detected[a] # << >>
                         /\ ~Contains(allergen_text, AllergenName(MAJOR_ALLERGENS[a].type)))

\* 4. Ingredients List, with the allergen analysis
IngredientList(l, info, lang) ==
    IF l.exc # "none" THEN l
    ELSE IF ~IsDict(info) THEN Raise(l, "AttributeError")
    ELSE LET ingredients_original == Field(info, "ingredient_list_original", Str(<< >>))
             ingredients_english == Field(info, "ingredient_list_english", Str(<< >>))
         IN  IF ~Truthy(ingredients_original)
             THEN [l EXCEPT
                     !.critical = Append(@, "Ingredient List (21 CFR 101.4)"),
                     !.compliance_risks = Append(@, "Missing Ingredient List")]
             ELSE IF ~IsDict(lang) THEN Raise(l, "AttributeError")
             ELSE IF Field(lang, "primary_language", Str(<< >>)).t # "str"
                  THEN Raise(l, "AttributeError")
             ELSE LET primary_lang == Lower(Field(lang, "primary_language", Str(<< >>)).s)
                      detected == detect_allergens(Or(ingredients_english, ingredients_original).s)
                      allergen_stmt_original ==
                          Field(info, "allergen_statement_original", Str(<< >>))
                      allergen_stmt_english ==
                          Field(info, "allergen_statement_english", Str(<< >>))
                      allergen_text == Lower(Or(Or(allergen_stmt_english, allergen_stmt_original),
                                                Str(<< >>)).s)
                      missing_allergens == MissingAllergens(detected, allergen_text)
                      l1 == [l EXCEPT
                               !.passed = Append(@, "Ingredient list present"),
                               !.detected = detected,
                               !.changes_made =
                                   IF primary_lang \in {<<"s", "p", "a", "n", "i", "s", "h">>, <<"p", "o", "r", "t", "u", "g", "u", "e", "s", "e">>}
                                        /\ Truthy(ingredients_english)
                                   THEN Append(@, "Translated ingredients to English") ELSE @]
                  IN  IF detected = NoAllergens THEN l1
                      ELSE IF missing_allergens # << >>
                      THEN [l1 EXCEPT
                              !.critical = Append(@, "Allergen Declaration (21 CFR 101.22)"),
                              !.compliance_risks = Append(@, "Missing allergen declarations"),
                              !.changes_made = Append(@, "Added allergen declaration")]
                      ELSE [l1 EXCEPT
                              !.passed = Append(@, "Allergens properly declared"),
                              !.changes_made =
                                  IF /\ Truthy(allergen_stmt_original)
                                     /\ Truthy(allergen_stmt_english)
                                     /\ allergen_stmt_original # allergen_stmt_english
                                  THEN Append(@, "Translated allergen statement to English")
                                  ELSE @]

\* 5. Manufacturer Name and Address
Manufacturer(l, info) ==
    IF l.exc # "none" THEN l
    ELSE IF ~Truthy(Field(info, "manufacturer_name", Null))
    THEN [l EXCEPT
            !.critical = Append(@, "Manufacturer Information (21 CFR 101.5)"),
            !.compliance_risks = Append(@, "Missing Manufacturer Information")]
    ELSE LET l1 == [l EXCEPT !.passed = Append(@, "Manufacturer information present")]
             country_of_origin == Field(info, "country_of_origin", Str(<< >>))
             manufacturer_address == Field(info, "manufacturer_address", Str(<< >>))
         IN  IF country_of_origin.t # "str" THEN Raise(l1, "AttributeError")
             ELSE LET country == Lower(country_of_origin.s)
                  IN  IF country # << >> /\ ~Contains(country, <<"u", "s", "a">>)
                           /\ ~Contains(country, <<"u", "n", "i", "t", "e", "d", " ", "s", "t", "a", "t", "e", "s">>)
                      THEN IF manufacturer_address.t # "str" THEN Raise(l1, "AttributeError")
                           ELSE IF ~Contains(Lower(manufacturer_address.s), <<"i", "m", "p", "o", "r", "t", "e", "d">>)
                                THEN [l1 EXCEPT
                                        !.major = Append(@, "Country of Origin Declaration")]
                                ELSE l1
                      ELSE l1

\* Step 2 of the audit: Chilean sellos and Mexican front-of-pack warnings
Localization(l, pdp) ==
    IF l.exc # "none" THEN l
    ELSE LET sellos == Field(pdp, "chilean_sellos", List(0))
             mex_warnings == Field(pdp, "mexican_warnings", List(0))
             l1 == IF Truthy(sellos)
                   THEN [l EXCEPT
                           !.changes_made = @ \o <<"Removed Chilean 'Sellos'",
                               "Note: High sugar/fat content reflected in Nutrition Facts panel instead">>,
                           !.passed = Append(@, "Chilean sellos identified and removed")]
                   ELSE l
         IN  IF Truthy(mex_warnings)
             THEN [l1 EXCEPT
                     !.changes_made = @ \o <<"Removed Mexican front-of-pack warnings",
                         "Note: Nutrient content shown in Nutrition Facts panel">>,
                     !.passed = Append(@, "Mexican warnings identified and removed")]
             ELSE l1

\* Language requirement
LanguageRequirement(l, lang) ==
    IF l.exc # "none" THEN l
    ELSE IF ~IsDict(lang) THEN Raise(l, "AttributeError")
    ELSE LET primary == Field(lang, "primary_language", Str(<< >>))
         IN  IF Truthy(primary) /\ Lower(primary.s) \notin {<<"e", "n", "g", "l", "i", "s", "h">>, <<"u", "n", "k", "n", "o", "w", "n">>}
             THEN [l EXCEPT
                     !.critical = Append(@, "English Language (21 CFR 101.15)"),
                     !.compliance_risks = Append(@, "Not in English"),
                     !.changes_made = Append(@, "Translated entire label to English")]
             ELSE [l EXCEPT !.passed = Append(@, "English language requirement met")]

Max(a, b) == IF a >= b THEN a ELSE b

\* The score without its floor at zero.
ComplianceScoreUnclamped(total_critical, total_major) ==
    100 - (total_critical * 20) - (total_major * 10)

\* compliance_score, from the two counts
ComplianceScore(total_critical, total_major) ==
    Max(0, 100 - (total_critical * 20) - (total_major * 10))

\* The status with the upper cut point one lower: two critical issues already give
\* 'major revision'.
ComplianceStatusCutAtOne(total_critical) ==
    IF total_critical = 0
    THEN [status |-> "FDA COMPLIANT - READY FOR US MARKET", export_ready |-> TRUE]
    ELSE IF total_critical <= 1
    THEN [status |-> "NEEDS FIXES - Close to compliance", export_ready |-> FALSE]
    ELSE [status |-> "MAJOR REVISION REQUIRED", export_ready |-> FALSE]

\* status and export_ready, from the count of critical issues
ComplianceStatus(total_critical) ==
    IF total_critical = 0
    THEN [status |-> "FDA COMPLIANT - READY FOR US MARKET", export_ready |-> TRUE]
    ELSE IF total_critical <= 2
    THEN [status |-> "NEEDS FIXES - Close to compliance", export_ready |-> FALSE]
    ELSE [status |-> "MAJOR REVISION REQUIRED", export_ready |-> FALSE]

\* The locals at the end of the checks, in the order the method runs them.
AuditChecks(extracted_data, origin_country) ==
    LET pdp == Section(extracted_data, "principal_display_panel", PdpKeys)
        info == Section(extracted_data, "information_panel", InfoKeys)
        lang == Section(extracted_data, "language_detection", LangKeys)
        nutrition == Section(extracted_data, "nutrition_facts", NutritionKeys)
        l1 == StatementOfIdentity(Locals0, pdp)
        l2 == NetQuantity(l1, pdp)
        l3 == NutritionFacts(l2, nutrition, info, origin_country)
        l4 == IngredientList(l3, info, lang)
        l5 == Manufacturer(l4, info)
        l6 == Localization(l5, pdp)
    IN  LanguageRequirement(l6, lang)

\* What the call gives its caller: the report dict, or the exception it raised.
\* redesign_data (_generate_redesign_specification) reads the same sections with
\* .get and adds no issue; it is left out of the report.
validate_complete_label(extracted_data, origin_country) ==
    LET Summary(l, total_critical, total_major, summary) ==
            [raised |-> "none",
             compliance_score |-> ComplianceScore(total_critical, total_major),
             export_ready |-> summary.export_ready,
             status |-> summary.status,
             issues |-> [critical |-> l.critical, major |-> l.major,
                         minor |-> l.minor, passed |-> l.passed],
             total_issues |-> total_critical + total_major,
             changes_made |-> l.changes_made,
             compliance_risks |-> l.compliance_risks,
             detected_allergens |-> l.detected,
             audit_summary |->
                 [critical_issues |-> total_critical,
                  major_issues |-> total_major,
                  minor_issues |-> Len(l.minor),
                  passed_checks |-> Len(l.passed),
                  total_changes |-> Len(l.changes_made),
                  risk_level |-> IF total_critical >= 3 THEN "HIGH"
                                 ELSE IF total_critical > 0 THEN "MEDIUM" ELSE "LOW"]]
        Report(l) ==
            IF l.exc # "none" THEN [raised |-> l.exc]
            ELSE Summary(l, Len(l.critical), Len(l.major),
                         ComplianceStatus(Len(l.critical)))
    IN  Report(AuditChecks(extracted_data, origin_country))

(***************************************************************************)
(* The polyol correction block of the Complete Label Compliance engine     *)
(* (app.py 1620-1694): it runs between json.loads and the validator and    *)
(* rewrites label_data['nutrition_facts'] in place.                        *)
(***************************************************************************)
polyol_keywords == <<
    <<"m", "a", "l", "t", "i", "t", "o", "l">>, <<"s", "o", "r", "b", "i", "t", "o", "l">>, <<"x", "y", "l", "i", "t", "o", "l">>, <<"e", "r", "y", "t", "h", "r", "i", "t", "o", "l">>, <<"i", "s", "o", "m", "a", "l", "t">>, <<"m", "a", "n", "n", "i", "t", "o", "l">>,
    <<"l", "a", "c", "t", "i", "t", "o", "l">>, <<"p", "o", "l", "i", "o", "l", "e", "s">>, <<"p", "o", "l", "y", "o", "l", "s">>, <<"p", "o", "l", "i", "a", "l", "c", "o", "h", "o", "l", "e", "s">>,
    <<"j", "a", "r", "a", "b", "e", " ", "d", "e", " ", "m", "a", "l", "t", "i", "t", "o", "l">>, <<"m", "a", "l", "t", "i", "t", "o", "l", " ", "s", "y", "r", "u", "p">>, <<"s", "u", "g", "a", "r", " ", "a", "l", "c", "o", "h", "o", "l">>,
    <<"p", "o", "l", "i", "o", "l">>, <<"a", "l", "c", "o", "h", "o", "l", " ", "d", "e", " ", "a", "z", "ú", "c", "a", "r">>, <<"m", "a", "l", "t", "i", "t", "o", "l", " ", "e", "n", " ", "p", "o", "l", "v", "o">>,
    <<"e", "9", "6", "5">>, <<"e", "4", "2", "0">>, <<"e", "9", "6", "7">>, <<"e", "9", "6", "8">> >>

real_sugar_keywords == <<
    <<"s", "u", "g", "a", "r">>, <<"a", "z", "ú", "c", "a", "r">>, <<"s", "u", "c", "r", "o", "s", "e">>, <<"s", "a", "c", "a", "r", "o", "s", "a">>,
    <<"c", "o", "r", "n", " ", "s", "y", "r", "u", "p">>, <<"j", "a", "r", "a", "b", "e", " ", "d", "e", " ", "m", "a", "í", "z">>, <<"h", "i", "g", "h", " ", "f", "r", "u", "c", "t", "o", "s", "e">>,
    <<"h", "o", "n", "e", "y">>, <<"m", "i", "e", "l">>, <<"g", "l", "u", "c", "o", "s", "e">>, <<"g", "l", "u", "c", "o", "s", "a">>, <<"f", "r", "u", "c", "t", "o", "s", "e">>, <<"f", "r", "u", "c", "t", "o", "s", "a">>,
    <<"d", "e", "x", "t", "r", "o", "s", "e">>, <<"d", "e", "x", "t", "r", "o", "s", "a">>, <<"b", "r", "o", "w", "n", " ", "s", "u", "g", "a", "r">>, <<"c", "a", "n", "e", " ", "s", "u", "g", "a", "r">>,
    <<"a", "g", "a", "v", "e">>, <<"m", "a", "p", "l", "e", " ", "s", "y", "r", "u", "p">> >>

\* ingredients_eng + ' ' + ingredients_orig, of an information panel that is a dict
IngredientsCombined(info_panel) ==
    Lower(Or(Field(info_panel, "ingredient_list_english", Null), Str(<< >>)).s)
        \o <<" ">>
        \o Lower(Or(Field(info_panel, "ingredient_list_original", Null), Str(<< >>)).s)

\* added_sugars_val of the try block: one bare except zeroes both values
AddedSugarsVal(added_sugars_raw, sugar_alcohols_raw) ==
    LET Both(a, s) == IF a.exc # "none" \/ s.exc # "none" THEN 0 ELSE a.v
    IN  Both(IF Truthy(added_sugars_raw) THEN Float(added_sugars_raw) ELSE Parsed(0),
             IF Truthy(sugar_alcohols_raw) THEN Float(sugar_alcohols_raw) ELSE Parsed(0))

\* The test without its amount guard: any polyol-only ingredient text is corrected.
CorrectionAppliesWithoutAmount(added_sugars_val, ingredients_combined) ==
    ~AnyIn(real_sugar_keywords, ingredients_combined)

\* if added_sugars_val > 0 and not has_real_sugar: the correction is applied
CorrectionApplies(added_sugars_val, ingredients_combined) ==
    added_sugars_val > 0 /\ ~AnyIn(real_sugar_keywords, ingredients_combined)

\* The block's result: [exc, label_data, corrected].  corrected tells whether the
\* two fields were rewritten (the code keeps no such flag: it only shows messages).
PolyolCorrectionBlock(label_data) ==
    LET nutrition == Section(label_data, "nutrition_facts", NutritionKeys)
        info_panel == Section(label_data, "information_panel", InfoKeys)
        unchanged == [exc |-> "none", label_data |-> label_data, corrected |-> FALSE]
        raised == [exc |-> "AttributeError", label_data |-> label_data, corrected |-> FALSE]
    IN  IF ~IsDict(info_panel) THEN raised
        ELSE LET ingredients_combined == IngredientsCombined(info_panel)
                 detected_polyols == AnyIn(polyol_keywords, ingredients_combined)
             IN  IF ~detected_polyols THEN unchanged
                 ELSE IF ~IsDict(nutrition) THEN raised
                 ELSE LET added_sugars_val ==
                              AddedSugarsVal(Field(nutrition, "added_sugars_g", Str(<<"0">>)),
                                             Field(nutrition, "sugar_alcohols_g", Str(<<"0">>)))
                          fixed == [nutrition.d EXCEPT
                                      !["sugar_alcohols_g"] = Str(FormatFloat(added_sugars_val)),
                                      !["added_sugars_g"] = Str(<<"0">>)]
                      IN  IF CorrectionApplies(added_sugars_val, ingredients_combined)
                          THEN [exc |-> "none",
                                label_data |-> [label_data EXCEPT
                                                  !["nutrition_facts"] = Dict(fixed)],
                                corrected |-> TRUE]
                          ELSE [exc |-> "none",
                                label_data |-> [label_data EXCEPT
                                                  !["nutrition_facts"] = nutrition],
                                corrected |-> FALSE]

(***************************************************************************)
(* The records the extraction step may hand over.  The extractor is an     *)
(* external model call: a record is a starting record (the empty one, or a *)
(* label that passes every check) with at most MaxEdits keys set to        *)
(* another value, a whole section being absent or null counting as one.    *)
(***************************************************************************)
MaxEdits == 2

SectionKeys ==
    [principal_display_panel |-> PdpKeys, information_panel |-> InfoKeys,
     language_detection |-> LangKeys, nutrition_facts |-> NutritionKeys]

EmptyLabel == [s \in DOMAIN SectionKeys |-> Absent]

CompliantLabel ==
    [principal_display_panel |->
        Dict([k \in PdpKeys |->
            CASE k = "product_name" -> Str(<<"J", "a", "m">>)
              [] k = "net_quantity_original" -> Str(<<"1", " ", "o", "z", " ", "(", "2", "8", " ", "g", ")">>)
              [] OTHER -> Absent]),
     information_panel |->
        Dict([k \in InfoKeys |->
            CASE k = "ingredient_list_original" -> Str(<<"w", "a", "t", "e", "r">>)
              [] k = "manufacturer_name" -> Str(<<"A", "c", "m", "e">>)
              [] k = "country_of_origin" -> Str(<<"U", "S", "A">>)
              [] OTHER -> Absent]),
     language_detection |-> Dict([k \in LangKeys |-> Str(<<"E", "n", "g", "l", "i", "s", "h">>)]),
     nutrition_facts |->
        Dict([k \in NutritionKeys |->
            CASE k = "present" -> Bool(TRUE)
              [] k = "format" -> Str(<<"U", "S">>)
              [] k = "added_sugars_g" -> Str(<<"0">>)
              [] k = "calories" -> Str(<<"1", "0", "0">>)
              [] k = "total_fat_g" -> Str(<<"4">>)
              [] k = "total_carb_g" -> Str(<<"1", "0">>)
              [] k = "protein_g" -> Str(<<"6">>)
              [] OTHER -> Absent])]

IngredientTexts ==
    {Str(<<"w", "a", "t", "e", "r">>), Str(<<"m", "a", "l", "t", "i", "t", "o", "l">>), Str(<<"m", "a", "l", "t", "i", "t", "o", "l", ",", " ", "s", "u", "g", "a", "r">>), Str(<<"e", "9", "6", "5", ",", " ", "s", "u", "g", "a", "r">>),
     Str(<<"p", "e", "a", "n", "u", "t", " ", "o", "i", "l">>), Str(<<"p", "e", "a", "n", "u", "t", "s">>), Str(<<"a", " ", "p", "e", "a", "n", "u", "t", "t", "y", " ", "f", "l", "a", "v", "o", "r">>), Str(<<"E", "g", "g", ",", " ", "s", "o", "y">>)}

\* the values a key may be set to
KeyValues(key) ==
    CASE key = "product_name" -> {Absent, Null, Str(<<"J", "a", "m">>)}
      [] key = "product_name_english" -> {Absent, Str(<<"J", "e", "l", "l", "y">>)}
      [] key = "net_quantity_original" ->
            {Absent, Null, Str(<<"5", "0", "0", " ", "g">>), Str(<<"1", " ", "l", "b">>), Str(<<"1", " ", "o", "z", " ", "(", "2", "8", " ", "g", ")">>), Str(<<"1", "2", " ", "u", "n">>),
             Str(<<"1", " ", "o", "z">>)}
      [] key = "net_quantity_us" -> {Absent, Str(<<"1", " ", "o", "z">>)}
      [] key = "net_quantity_metric" -> {Absent, Str(<<"5", "0", "0", " ", "g">>)}
      [] key \in {"chilean_sellos", "mexican_warnings"} -> {Absent, List(1)}
      [] key = "ingredient_list_original" -> {Absent, Null} \cup IngredientTexts
      [] key = "ingredient_list_english" ->
            {Absent, Null, Str(<<"w", "a", "t", "e", "r">>), Str(<<"m", "a", "l", "t", "i", "t", "o", "l">>), Str(<<"p", "e", "a", "n", "u", "t", "s">>)}
      [] key = "allergen_statement_original" ->
            {Absent, Null, Str(<<"C", "o", "n", "t", "a", "i", "n", "s", ":", " ", "e", "g", "g", ",", " ", "s", "o", "y">>), Str(<<"c", "o", "n", "t", "a", "i", "n", "s", " ", "p", "e", "a", "n", "u", "t", "s">>)}
      [] key = "allergen_statement_english" -> {Absent, Str(<<"C", "O", "N", "T", "A", "I", "N", "S", ":", " ", "E", "G", "G", "S", ",", " ", "S", "O", "Y", "B", "E", "A", "N", "S">>)}
      [] key = "manufacturer_name" -> {Absent, Null, Str(<<"A", "c", "m", "e">>)}
      [] key = "manufacturer_address" ->
            {Absent, Null, Str(<<"I", "m", "p", "o", "r", "t", "e", "d", " ", "b", "y", " ", "A", "c", "m", "e">>), Str(<<"L", "i", "m", "a">>)}
      [] key = "country_of_origin" -> {Absent, Null, Str(<<"U", "S", "A">>), Str(<<"P", "e", "r", "u">>)}
      [] key = "primary_language" -> {Absent, Null, Str(<<"E", "n", "g", "l", "i", "s", "h">>), Str(<<"S", "p", "a", "n", "i", "s", "h">>),
             Str(<<"U", "n", "k", "n", "o", "w", "n">>)}
      [] key = "present" -> {Absent, Null, Bool(TRUE), Bool(FALSE)}
      [] key = "format" -> {Absent, Null, Str(<<"U", "S">>), Str(<<"M", "e", "x", "i", "c", "a", "n">>)}
      [] key = "sugar_alcohols_g" -> {Absent, Null, Str(<<"0">>), Str(<<"3">>), Str(<<"n", "/", "a">>)}
      [] key = "added_sugars_g" ->
            {Absent, Null, Str(<<"0">>), Str(<<"1", "2">>), Str(<<"-", "1">>), Str(<<"n", "/", "a">>)}
      [] key = "calories" -> {Str(<<"1", "0", "0">>), Str(<<"4", "0", "0">>)}
      [] OTHER -> {}

\* label[section][key] = value, the section made a dict if it is not one
SetKey(label, section, key, value) ==
    LET d == IF IsDict(label[section]) THEN label[section].d
             ELSE [k \in SectionKeys[section] |-> Absent]
    IN  [label EXCEPT ![section] = Dict([d EXCEPT ![key] = value])]

EditsOf(label) ==
    {SetKey(label, s, k, v) : <<s, k, v>> \in
        UNION {{<<s, k, v>> : v \in KeyValues(k)} :
               <<s, k>> \in UNION {{<<s, k>> : k \in SectionKeys[s]} : s \in DOMAIN SectionKeys}}}
    \cup {[label EXCEPT ![s] = v] : s \in DOMAIN SectionKeys, v \in {Absent, Null}}

RECURSIVE Edited(_, _)
Edited(labels, n) ==
    IF n = 0 THEN labels
    ELSE Edited(labels \cup UNION {EditsOf(l) : l \in labels}, n - 1)

LabelRecords == Edited({EmptyLabel, CompliantLabel}, MaxEdits)

\* the sidebar's "Your Country" options (the flag emoji before each name left out)
OriginCountries == {Str(<<"M", "e", "x", "i", "c", "o">>), Str(<<"C", "o", "l", "o", "m", "b", "i", "a">>), Str(<<"C", "h", "i", "l", "e">>), Str(<<"B", "r", "a", "z", "i", "l">>)}

(***************************************************************************)
(* The nutrition records handed to the converter: a consistent record      *)
(* (4 g fat, 10 g carbohydrate, 6 g protein: 100 calories by the Atwater   *)
(* factors) with at most MaxEdits fields set to another value.             *)
(***************************************************************************)
BaseNutrition ==
    [k \in ConverterKeys |->
        CASE k = "calories" -> Str(<<"1", "0", "0">>)
          [] k = "total_fat_g" -> Str(<<"4">>)
          [] k = "total_carb_g" -> Str(<<"1", "0">>)
          [] k = "protein_g" -> Str(<<"6">>)
          [] k = "serving_size_metric" -> Absent
          [] OTHER -> Str(<<"0">>)]

NumericInputs(field) ==
    CASE field = "calories" ->
            {Absent, Null, Str(<< >>), Str(<<"a", "b", "c">>), Str(<<"-", "1">>),
             Str(<<"8", "5">>), Str(<<"1", "1", "5">>), Str(<<"1", "2", "0">>),
             Str(<<"8", "4", ".", "5">>)}
      [] field = "total_fat_g" ->
            {Absent, Null, Str(<< >>), Str(<<"a", "b", "c">>), Str(<<"-", "1">>),
             Str(<<"0", ".", "5">>), Str(<<"0", ".", "3">>)}
      [] field \in {"total_carb_g", "protein_g"} ->
            {Absent, Null, Str(<< >>), Str(<<"a", "b", "c">>), Str(<<"-", "1">>),
             Str(<<"0", ".", "5">>)}
      [] field = "trans_fat_g" ->
            {Absent, Str(<<"a", "b", "c">>), Str(<<"-", "1">>), Str(<<"2", ".", "5">>),
             Str(<<"0", ".", "4">>)}
      [] OTHER -> {Absent, Str(<<"a", "b", "c">>), Str(<<"-", "1">>), Str(<<"2", ".", "5">>)}

NutritionEditsOf(data) ==
    {[data EXCEPT ![f] = v] : <<f, v>> \in
        UNION {{<<f, v>> : v \in NumericInputs(f)} : f \in Range(numeric_fields)}}

RECURSIVE NutritionEdited(_, _)
NutritionEdited(records, n) ==
    IF n = 0 THEN records
    ELSE NutritionEdited(records \cup UNION {NutritionEditsOf(d) : d \in records}, n - 1)

NutritionRecords == NutritionEdited({BaseNutrition}, MaxEdits)

(***************************************************************************)
(* The state: one run of the Streamlit script in one of its two modes.     *)
(***************************************************************************)
VARIABLES
    pc,                 \* where the run is: "idle", "extracted", "validated",
                        \*   "corrected", "reported", "failed" or "converted"
    extracted_data,     \* the record json.loads gave, kept as it was extracted
    label_data,         \* label_data, which the polyol block rewrites
    corrected,          \* whether the polyol block rewrote the two sugar fields
    compliance_report,  \* what validate_complete_label returned
    converter,          \* the EnhancedFDAConverter: [implementation, warnings, errors]
    nutrition_data,     \* the record handed to extract_and_validate
    corrected_data,     \* the dict extract_and_validate returned
    rounding,           \* a call of apply_fda_rounding_rules: its arguments and the
                        \*   text it returned
    percent,            \* calls of calculate_percent_dv on two amounts of one nutrient
    serving,            \* a call of convert_metric_to_us_serving: its argument and the text it returned
    calorie_check,      \* a call of validate_calorie_calculation: its argument and what it returned
    audits              \* one EnhancedFDAConverter and the calls made on it: the list objects, and what the caller holds

vars == <<pc, extracted_data, label_data, corrected, compliance_report,
          converter, nutrition_data, corrected_data, rounding, percent, serving, calorie_check, audits>>

None == [t |-> "none"]

NoConverter == [implementation |-> "none", warnings |-> << >>, errors |-> << >>]

Init ==
    /\ pc = "idle"
    /\ extracted_data = None
    /\ label_data = None
    /\ corrected = FALSE
    /\ compliance_report = None
    /\ converter = NoConverter
    /\ nutrition_data = None
    /\ corrected_data = None
    /\ rounding = None
    /\ percent = None
    /\ serving = None
    /\ calorie_check = None
    /\ audits = None

\* label_data = json.loads(data_text)  (app.py 1618)
ExtractLabel ==
    /\ pc = "idle"
    /\ \E record \in LabelRecords :
          /\ extracted_data' = record
          /\ label_data' = record
    /\ pc' = "extracted"
    /\ UNCHANGED <<corrected, compliance_report, converter, nutrition_data, corrected_data,
                   rounding, percent, serving, calorie_check, audits>>

\* the polyol correction block (app.py 1620-1694); an exception ends the run in the
\* engine's except clause
PolyolCorrection ==
    /\ pc = "extracted"
    /\ \E block \in {PolyolCorrectionBlock(label_data)} :
          /\ label_data' = block.label_data
          /\ corrected' = block.corrected
          /\ pc' = IF block.exc = "none" THEN "corrected" ELSE "failed"
    /\ UNCHANGED <<extracted_data, compliance_report, converter, nutrition_data,
                   corrected_data, rounding, percent, serving, calorie_check, audits>>

\* CompleteLabelValidator().validate_complete_label(record) on a record as it was
\* extracted: the method on its own.  origin_country is the module global the sidebar
\* sets, read when the method runs.  compliance_report holds the report, or what the
\* call raised.
ValidateRecord ==
    /\ pc = "extracted"
    /\ \E origin_country \in OriginCountries :
          compliance_report' = validate_complete_label(label_data, origin_country)
    /\ pc' = "validated"
    /\ UNCHANGED <<extracted_data, label_data, corrected, converter, nutrition_data,
                   corrected_data, rounding, percent, serving, calorie_check, audits>>

\* compliance_report = validator.validate_complete_label(label_data)  (app.py 1700-1701),
\* on the record the polyol block has left; an exception ends the run in the engine's
\* except clause (compliance_report then holds what was raised)
ValidateCompleteLabel ==
    /\ pc = "corrected"
    /\ \E origin_country \in OriginCountries :
          \E report \in {validate_complete_label(label_data, origin_country)} :
              /\ compliance_report' = report
              /\ pc' = IF report.raised = "none" THEN "reported" ELSE "failed"
    /\ UNCHANGED <<extracted_data, label_data, corrected, converter, nutrition_data,
                   corrected_data, rounding, percent, serving, calorie_check, audits>>

\* converter = EnhancedFDAConverter(); converter.extract_and_validate(nutrition_data)
\* (app.py 1468-1474), with either copy of the class
Convert ==
    /\ pc = "idle"
    /\ \E implementation \in Implementations, data \in NutritionRecords :
          \E result \in {extract_and_validate(implementation, data)} :
              /\ nutrition_data' = data
              /\ corrected_data' = result
              /\ converter' = [implementation |-> implementation,
                               warnings |-> result.validation_report.warnings,
                               errors |-> result.validation_report.errors]
    /\ pc' = "converted"
    /\ UNCHANGED <<extracted_data, label_data, corrected, compliance_report, rounding, percent, serving, calorie_check, audits>>

\* the next run of the script starts from nothing
Rerun ==
    /\ pc \in {"validated", "reported", "failed", "converted"}
    /\ pc' = "idle"
    /\ extracted_data' = None
    /\ label_data' = None
    /\ corrected' = FALSE
    /\ compliance_report' = None
    /\ converter' = NoConverter
    /\ nutrition_data' = None
    /\ corrected_data' = None
    /\ UNCHANGED <<rounding, percent, serving, calorie_check, audits>>

Next ==
    \/ ExtractLabel
    \/ ValidateRecord
    \/ PolyolCorrection
    \/ ValidateCompleteLabel
    \/ Convert
    \/ Rerun

Spec == Init /\ [][Next]_vars

(***************************************************************************)
(* The calls of apply_fda_rounding_rules: every nutrient type of the label *)
(* generator, and one the function does not name, on amounts at every      *)
(* quarter unit up to MaxAmount and one Unit-th below and above each, as a *)
(* JSON number and as its text, and on values that are no amount.          *)
(***************************************************************************)
MaxAmount == 150

Amounts ==
    {q * (Unit \div 4) + d : q \in 0..(4 * MaxAmount), d \in {0 - 1, 0, 1}}

RoundingValues ==
    {Num(n) : n \in Amounts} \cup {Str(FormatFloat(n)) : n \in Amounts}
        \cup {Null, Str(<< >>), Str(<<"a", "b", "c">>), Str(<<"n", "/", "a">>), Str(<<"n", "a", "n">>), Str(<<"i", "n", "f">>),
              Str(<<"-", "i", "n", "f">>)}

NutrientTypes ==
    {"calories", "cholesterol", "sodium", "other"} \cup FatTypes \cup WholeUnitTypes

\* calories = apply_fda_rounding_rules(get_val('calories'), 'calories') and the
\* fourteen calls after it, each on its own
RoundAmount ==
    /\ rounding = None
    /\ \E value \in RoundingValues, nutrient_type \in NutrientTypes :
          rounding' = [value |-> value, nutrient_type |-> nutrient_type,
                       raised |-> apply_fda_rounding_rules(value, nutrient_type).raised,
                       text |-> apply_fda_rounding_rules(value, nutrient_type).text]
    /\ UNCHANGED <<pc, extracted_data, label_data, corrected, compliance_report,
                   converter, nutrition_data, corrected_data, percent, serving, calorie_check, audits>>

SpecRounding == Init /\ [][RoundAmount]_vars

(***************************************************************************)
(* The calls of calculate_percent_dv: every nutrient of FDA_DAILY_VALUES   *)
(* and three the table does not have, on an amount and on a larger one.    *)
(* The amounts are those of the rounding calls and every hundredth up to   *)
(* MaxHundredths, which has the amounts whose percent is halfway between   *)
(* two integers (0.39 g and 2.73 g of total fat, 0.7 g of saturated fat).  *)
(***************************************************************************)
MaxHundredths == 300

DvAmounts ==
    {a \in Amounts : a >= 0} \cup {k * (Unit \div 100) : k \in 0..MaxHundredths}

DvSteps == {1, Unit \div 100, Unit \div 4, 10 * Unit}

DvNutrients == DOMAIN FDA_DAILY_VALUES \cup {"trans_fat", "total_sugars", "calories"}

\* FDALabelValidator.calculate_percent_dv(nutrient, amount), twice
CalculatePercentDv ==
    /\ percent = None
    /\ \E nutrient \in DvNutrients, amount \in DvAmounts, step \in DvSteps :
          percent' = [nutrient |-> nutrient,
                      amount |-> amount,
                      result |-> calculate_percent_dv(nutrient, amount),
                      larger |-> amount + step,
                      result_larger |-> calculate_percent_dv(nutrient, amount + step)]
    /\ UNCHANGED <<pc, extracted_data, label_data, corrected, compliance_report,
                   converter, nutrition_data, corrected_data, rounding, serving, calorie_check, audits>>

SpecPercentDv == Init /\ [][CalculatePercentDv]_vars

(***************************************************************************)
(* The calls of convert_metric_to_us_serving: every amount of a tenth up   *)
(* to MaxServing, written with and without its fraction, before each of    *)
(* the unit spellings, and texts that state no mass or volume.             *)
(***************************************************************************)
MaxServing == 125

ServingNumerals ==
    {FormatFloat(n * (Unit \div 10)) : n \in 0..(10 * MaxServing)}
        \cup {DigitsOf(n) : n \in 0..(4 * MaxServing)}

UnitSpellings ==
    {<<"g">>, <<" ", "g">>, <<"G">>, <<"m", "l">>, <<"m", "L">>, <<" ", "m", "L">>, <<" ", "g", "r", "a", "m", "s">>, <<"m", "g">>, <<" ", "o", "z">>, << >>}

ServingTexts ==
    {numeral \o unit : numeral \in ServingNumerals, unit \in UnitSpellings}
        \cup {<< >>, <<"a", "b", "c">>, <<"1", " ", "c", "u", "p">>, <<"2", " ", "p", "i", "e", "c", "e", "s">>, <<" ", "3", "0", "G", " ">>, <<"g", "3", "0">>, <<"1", "/", "2", " ", "c", "u", "p">>,
              <<"3", "0", ".", "g">>, <<".", "5", "g">>}

\* us_serving = self.validator.convert_metric_to_us_serving(
\*     corrected_data['serving_size_metric']), on its own
ConvertServing ==
    /\ serving = None
    /\ \E metric_str \in ServingTexts :
          serving' = [metric_str |-> metric_str,
                      text |-> convert_metric_to_us_serving(metric_str)]
    /\ UNCHANGED <<pc, extracted_data, label_data, corrected, compliance_report,
                   converter, nutrition_data, corrected_data, rounding, percent, calorie_check, audits>>

SpecServing == Init /\ [][ConvertServing]_vars

(***************************************************************************)
(* The calls of validate_calorie_calculation: records of the three         *)
(* macronutrients, given, absent, null or no number, with declared         *)
(* calories at every twentieth up to MaxCalories, which has both bounds    *)
(* of every estimate (0.85 and 1.15 times an integer).                     *)
(***************************************************************************)
MaxCalories == 120

CalorieKeys == {"total_fat_g", "total_carb_g", "protein_g", "calories"}

FatInputs == {Absent, Null, Str(<<"0">>), Str(<<"2", ".", "5">>), Num(5 * Unit)}

CarbInputs == {Str(<<"0">>), Str(<<"1", "0">>), Num(25 * Unit), Str(<<"a", "b", "c">>)}

ProteinInputs == {Str(<<"0">>), Str(<<"6">>)}

DeclaredCalories ==
    {Str(FormatFloat(k * (Unit \div 20))) : k \in 0..(20 * MaxCalories)}
        \cup {Num(115 * Unit), Absent, Null, Str(<< >>)}

\* is_valid, message, calculated = self.validator.validate_calorie_calculation(
\*     corrected_data), on its own
ValidateCalories ==
    /\ calorie_check = None
    /\ \E fat \in FatInputs, carb \in CarbInputs, protein \in ProteinInputs,
          calories \in DeclaredCalories :
          \E data \in {[k \in CalorieKeys |->
                          CASE k = "total_fat_g" -> fat
                            [] k = "total_carb_g" -> carb
                            [] k = "protein_g" -> protein
                            [] OTHER -> calories]} :
              calorie_check' = [data |-> data, result |-> validate_calorie_calculation(data)]
    /\ UNCHANGED <<pc, extracted_data, label_data, corrected, compliance_report,
                   converter, nutrition_data, corrected_data, rounding, percent, serving, audits>>

SpecCalories == Init /\ [][ValidateCalories]_vars

(***************************************************************************)
(* Several calls of extract_and_validate on one EnhancedFDAConverter.      *)
(* self.warnings and self.errors name list objects, and the report a call  *)
(* returns holds the two objects themselves ('warnings': self.warnings),   *)
(* so lists is the store of the list objects and the instance and the      *)
(* reports refer to them by their place in it.  Of each call the caller    *)
(* holds the record it gave and the report it got; given and returned are  *)
(* what the two were when the call returned.                               *)
(***************************************************************************)
MaxCalls == 3

AuditRecords ==
    {BaseNutrition}
        \cup {[BaseNutrition EXCEPT ![e[1]] = e[2]] :
                e \in {<<"calories", Absent>>, <<"calories", Str(<<"a", "b", "c">>)>>,
                       <<"calories", Str(<<"1", "2", "0">>)>>, <<"sodium_mg", Str(<<"-", "1">>)>>,
                       <<"total_fat_g", Null>>, <<"protein_g", Str(<< >>)>>,
                       <<"trans_fat_g", Str(<<"a", "b", "c">>)>>}}

\* EnhancedFDAConverter.__init__
NewConverter(implementation) ==
    [implementation |-> implementation, warnings |-> 1, errors |-> 2,
     lists |-> << << >>, << >> >>, calls |-> << >>]

\* extract_and_validate without its first two statements
KeepLists(self) == self

\* self.warnings = []; self.errors = []: the attributes name two new lists
ResetLists(self) ==
    [self EXCEPT !.warnings = Len(self.lists) + 1,
                 !.errors = Len(self.lists) + 2,
                 !.lists = self.lists \o << << >>, << >> >>]

\* self.extract_and_validate(record), result being what the call appends and
\* computes: the appends go to the lists the attributes name, the report holds those
\* lists, and every write to the record goes to the copy (corrected = data.copy()),
\* which leaves the caller's record as it was given
CallOnInstance(instance, record, result) ==
    LET Held(self, warnings, errors) ==
            [self EXCEPT
                !.lists[self.warnings] = warnings,
                !.lists[self.errors] = errors,
                !.calls = Append(@, [given |-> record,
                                     nutrition_data |-> record,
                                     returned |-> [warnings |-> warnings, errors |-> errors],
                                     warnings |-> self.warnings,
                                     errors |-> self.errors])]
        Appended(self) ==
            Held(self,
                      self.lists[self.warnings] \o result.validation_report.warnings,
                      self.lists[self.errors] \o result.validation_report.errors)
    IN  Appended(ResetLists(instance))

\* converter = EnhancedFDAConverter()
Construct ==
    /\ audits = None
    /\ \E implementation \in Implementations : audits' = NewConverter(implementation)
    /\ UNCHANGED <<pc, extracted_data, label_data, corrected, compliance_report,
                   converter, nutrition_data, corrected_data, rounding, percent, serving,
                   calorie_check>>

\* converter.extract_and_validate(record), once more on the same converter
Audit ==
    /\ audits # None
    /\ Len(audits.calls) < MaxCalls
    /\ \E record \in AuditRecords :
          audits' = CallOnInstance(audits, record,
                                   extract_and_validate(audits.implementation, record))
    /\ UNCHANGED <<pc, extracted_data, label_data, corrected, compliance_report,
                   converter, nutrition_data, corrected_data, rounding, percent, serving,
                   calorie_check>>

NextAudit == Construct \/ Audit

SpecAudits == Init /\ [][NextAudit]_vars

(***************************************************************************)
(* Properties of validate_complete_label.  The call has been made when     *)
(* compliance_report holds its outcome: the report, or what it raised.     *)
(***************************************************************************)
Called == pc \in {"validated", "reported", "failed"} /\ compliance_report # None

Returned == Called /\ compliance_report.raised = "none"

CriticalCount == Len(compliance_report.issues.critical)

MajorCount == Len(compliance_report.issues.major)

\* C1: every report the method returns has compliance_score =
\* max(0, 100 - 20*C - 10*M), C and M the numbers of critical and of major issues in
\* it, so the score is an integer from 0 to 100.
C1_ScoreFormula ==
    Returned =>
        /\ compliance_report.compliance_score =
              (IF 100 - 20 * CriticalCount - 10 * MajorCount > 0
               THEN 100 - 20 * CriticalCount - 10 * MajorCount ELSE 0)
        /\ compliance_report.compliance_score \in 0..100

\* a report whose issues weigh more than 100 points: the floor at zero is what gives
\* its score
C1_ScoreFloored ==
    /\ Returned
    /\ 20 * CriticalCount + 10 * MajorCount > 100
    /\ compliance_report.compliance_score = 0

\* C2: the status of every report is given by the number of critical issues alone:
\* none gives "FDA COMPLIANT - READY FOR US MARKET", one or two give "NEEDS FIXES",
\* three or more give "MAJOR REVISION REQUIRED", whatever the major, minor and
\* passed lists hold.
C2_StatusByCriticalCount ==
    Returned =>
        /\ CriticalCount = 0 =>
              /\ compliance_report.status = "FDA COMPLIANT - READY FOR US MARKET"
              /\ compliance_report.export_ready
        /\ CriticalCount \in {1, 2} =>
              /\ compliance_report.status = "NEEDS FIXES - Close to compliance"
              /\ ~compliance_report.export_ready
        /\ CriticalCount >= 3 =>
              /\ compliance_report.status = "MAJOR REVISION REQUIRED"
              /\ ~compliance_report.export_ready

\* a report at the upper cut point, two critical issues, that also has major issues,
\* and is "NEEDS FIXES"
C2_TwoCriticalWithMajor ==
    /\ Returned
    /\ CriticalCount = 2
    /\ MajorCount >= 1
    /\ compliance_report.status = "NEEDS FIXES - Close to compliance"

\* C3: the method never faults on a missing field: whatever sections and fields of
\* the record are present, absent or null, the call returns a report and raises no
\* exception.
C3_NeverFaults == Called => compliance_report.raised = "none"

\* the 'requirement' of the critical issue of each structural check, and the entry
\* the check leaves under 'passed' when it is satisfied
StructuralCritical ==
    {"Statement of Identity (21 CFR 101.3)", "Net Quantity Declaration (21 CFR 101.105)",
     "English Language (21 CFR 101.15)", "Ingredient List (21 CFR 101.4)",
     "Manufacturer Information (21 CFR 101.5)", "Nutrition Facts Panel (21 CFR 101.9)"}

StructuralPassed ==
    {"Statement of Identity present", "Net quantity in both US and metric units",
     "English language requirement met", "Ingredient list present",
     "Manufacturer information present", "Nutrition Facts panel present"}

\* C4: for the empty record {} the report has every structural check (statement of
\* identity, net quantity, primary language, ingredient list, manufacturer, nutrition
\* panel) as a critical issue, and none of them under 'passed'.
C4_EmptyRecordAllCritical ==
    (Called /\ extracted_data = EmptyLabel) =>
        /\ compliance_report.raised = "none"
        /\ StructuralCritical \subseteq Range(compliance_report.issues.critical)
        /\ StructuralPassed \cap Range(compliance_report.issues.passed) = {}

(***************************************************************************)
(* The allergen checks, stated over the record the method was given.       *)
(***************************************************************************)
GivenInfo == Section(label_data, "information_panel", InfoKeys)

\* the text of a value: of anything but a str, the empty text
TextOf(v) == IF v.t = "str" THEN v.s ELSE << >>

\* the ingredient text of the label: the English list, or the original one
GivenIngredientText ==
    TextOf(Or(Field(GivenInfo, "ingredient_list_english", Null),
              Field(GivenInfo, "ingredient_list_original", Null)))

\* the label's allergen statement, lower-cased
GivenAllergenStatement ==
    Lower(TextOf(Or(Field(GivenInfo, "allergen_statement_english", Null),
                    Field(GivenInfo, "allergen_statement_original", Null))))

\* a category is named in a statement by its name or by a synonym, one of its keywords
NamedIn(a, statement) ==
    \/ Contains(statement, AllergenName(MAJOR_ALLERGENS[a].type))
    \/ AnyIn(MAJOR_ALLERGENS[a].keywords, statement)

\* the detected categories that the statement does not name
UndeclaredAllergens ==
    {a \in DOMAIN MAJOR_ALLERGENS :
        /\ detect_allergens(GivenIngredientText)[a] # << >>
        /\ ~NamedIn(a, GivenAllergenStatement)}

\* the allergen analysis has run: the method returned and the original ingredient
\* list was there
Analysed ==
    /\ Returned
    /\ IsDict(GivenInfo)
    /\ Truthy(Field(GivenInfo, "ingredient_list_original", Str(<< >>)))

\* C5: when a category is detected in the ingredient text and the allergen statement
\* has neither its name nor a synonym, the report has a critical allergen-declaration
\* issue; when every detected category is named in the statement by its name or a
\* synonym ('egg' for eggs, 'soy' for soybeans), the report has none.
C5_AllergenCrossCheck ==
    Analysed =>
        ("Allergen Declaration (21 CFR 101.22)" \in Range(compliance_report.issues.critical))
            = (UndeclaredAllergens # {})

\* the maximal runs of word characters of a text: its whole words
Tokens(text) ==
    {SubSeq(text, i, j) : <<i, j>> \in
        {<<i, j>> \in (DOMAIN text) \X (DOMAIN text) :
            /\ i <= j
            /\ \A k \in i..j : IsWordChar(text[k])
            /\ i = 1 \/ ~IsWordChar(text[i - 1])
            /\ j = Len(text) \/ ~IsWordChar(text[j + 1])}}

\* the keywords of a category that are whole words of a text, whatever its case
WholeWordKeywords(a, text) ==
    SelectSeq(MAJOR_ALLERGENS[a].keywords, LAMBDA kw : kw \in Tokens(Lower(text)))

Peanuts == CHOOSE a \in DOMAIN MAJOR_ALLERGENS : MAJOR_ALLERGENS[a].type = <<"p", "e", "a", "n", "u", "t", "s">>

\* C6: detect_allergens reports a category, with the matched keywords, exactly when
\* a keyword of the category's list is a whole word of the ingredient text, whatever
\* its case, and never for a keyword inside a longer word: 'peanut oil' and 'peanuts'
\* give the category peanuts, 'a peanutty flavor' does not.
C6_WholeWordDetection ==
    Analysed =>
        /\ \A a \in DOMAIN MAJOR_ALLERGENS :
              compliance_report.detected_allergens[a]
                  = WholeWordKeywords(a, GivenIngredientText)
        /\ GivenIngredientText = <<"p", "e", "a", "n", "u", "t", " ", "o", "i", "l">> =>
              compliance_report.detected_allergens[Peanuts] = <<<<"p", "e", "a", "n", "u", "t">>>>
        /\ GivenIngredientText = <<"p", "e", "a", "n", "u", "t", "s">> =>
              compliance_report.detected_allergens[Peanuts] = <<<<"p", "e", "a", "n", "u", "t", "s">>>>
        /\ GivenIngredientText = <<"a", " ", "p", "e", "a", "n", "u", "t", "t", "y", " ", "f", "l", "a", "v", "o", "r">> =>
              compliance_report.detected_allergens[Peanuts] = << >>

\* the analysis of 'a peanutty flavor' found no peanuts
C6_PeanuttyNotDetected ==
    /\ Analysed
    /\ GivenIngredientText = <<"a", " ", "p", "e", "a", "n", "u", "t", "t", "y", " ", "f", "l", "a", "v", "o", "r">>
    /\ compliance_report.detected_allergens = NoAllergens

(***************************************************************************)
(* The calorie cross-check                                                 *)
(***************************************************************************)
GivenNutrition == Section(label_data, "nutrition_facts", NutritionKeys)

\* one nutrient value of the panel replaced by another
WithNutrient(label, key, value) ==
    [label EXCEPT !["nutrition_facts"] = Dict([@.d EXCEPT ![key] = value])]

\* The records that differ from a label only in the declared calories (100 or 400) or
\* in the fat (4 g or 40 g): with 10 g of carbohydrate and 6 g of protein the estimate
\* is 100 or 424, and the band holds 100 with the first and 400 with the second only.
CalorieVariants(label) ==
    {WithNutrient(label, "calories",
                  IF label["nutrition_facts"].d["calories"] = Str(<<"4", "0", "0">>)
                  THEN Str(<<"1", "0", "0">>) ELSE Str(<<"4", "0", "0">>)),
     WithNutrient(label, "total_fat_g",
                  IF label["nutrition_facts"].d["total_fat_g"] = Str(<<"4", "0">>)
                  THEN Str(<<"4">>) ELSE Str(<<"4", "0">>))}

\* what a call comes to: the status and the critical issues, or what it raised
Outcome(report) ==
    IF report.raised = "none" THEN <<report.status, report.issues.critical>>
    ELSE <<report.raised>>

\* C7: a calorie mismatch never changes the status: two records that differ only in
\* nutrient values that move the declared calories into or out of the tolerance band
\* of the estimate get the same status from validate_complete_label, and the same
\* critical issues, none of them for the calories.
C7_CalorieMismatchKeepsStatus ==
    (Called /\ IsDict(label_data["nutrition_facts"])) =>
        \A variant \in CalorieVariants(label_data), origin_country \in OriginCountries :
            Outcome(validate_complete_label(variant, origin_country))
                = Outcome(compliance_report)

\* a label whose declared calories are outside the band of the estimate, reported
\* ready for the market
C7_MismatchReportedCompliant ==
    /\ Returned
    /\ IsDict(label_data["nutrition_facts"])
    /\ Truthy(Field(GivenNutrition, "present", Null))
    /\ ~validate_calorie_calculation(GivenNutrition.d).is_valid
    /\ compliance_report.status = "FDA COMPLIANT - READY FOR US MARKET"

\* C8: in extract_and_validate a calorie mismatch is advisory: when
\* validate_calorie_calculation finds the declared calories invalid, one entry is
\* added to the warnings and none to the errors, the declared calories are not
\* replaced by the estimate, and is_compliant is what it is when the check passes:
\* whether the numeric validation found no error.
C8_CalorieMismatchAdvisory ==
    pc = "converted" =>
        LET report == corrected_data.validation_report
            required == IF converter.implementation = "fda_validator.py"
                        THEN validate_required_nutrients(nutrition_data) ELSE << >>
            numeric == validate_numeric_values(nutrition_data)
            checked == IF converter.implementation = "fda_validator.py"
                       THEN apply_rounding_rules(numeric.corrected) ELSE numeric.corrected
            calorie == validate_calorie_calculation(checked)
        IN  /\ Len(report.warnings) = Len(required) + (IF calorie.is_valid THEN 0 ELSE 1)
            /\ \A i \in 1..Len(required) :
                  report.warnings[i].text = "Missing required nutrient"
            /\ ~calorie.is_valid =>
                  /\ report.warnings[Len(report.warnings)] = calorie.message
                  /\ ParseFloat(corrected_data.data["calories"].s).v
                        # calorie.calculated * Unit
            /\ report.errors = numeric.errors
            /\ \A i \in DOMAIN report.errors :
                  report.errors[i].text \in {"Invalid numeric value for", "cannot be negative"}
            /\ corrected_data.data["calories"] = checked["calories"]
            /\ report.is_compliant = (numeric.errors = << >>)
            /\ converter.warnings = report.warnings
            /\ converter.errors = report.errors

\* a conversion whose only warning is the calorie mismatch, and which is compliant
C8_MismatchWarnedCompliant ==
    /\ pc = "converted"
    /\ Len(corrected_data.validation_report.warnings) = 1
    /\ corrected_data.validation_report.warnings[1].text = "Calorie mismatch"
    /\ corrected_data.validation_report.errors = << >>
    /\ corrected_data.validation_report.is_compliant

(***************************************************************************)
(* The sweetener classification, over the record as it was extracted and   *)
(* the record and the report the audit ends with.                          *)
(***************************************************************************)
ExtractedNutrition == Section(extracted_data, "nutrition_facts", NutritionKeys)

\* the ingredient text of the extracted record, both lists, lower-cased
ExtractedIngredients ==
    IngredientsCombined(Section(extracted_data, "information_panel", InfoKeys))

\* the amount a value states, in Unit-ths: 0 when it states none
Amount(v) == IF Truthy(v) /\ Float(v).exc = "none" THEN Float(v).v ELSE 0

ExtractedAddedSugars == Amount(Field(ExtractedNutrition, "added_sugars_g", Null))

\* the audit has run to its report on a record with its sections in place
Audited ==
    /\ pc = "reported"
    /\ IsDict(Section(extracted_data, "information_panel", InfoKeys))
    /\ IsDict(ExtractedNutrition)

\* the 'changes made' entries of the report that tell of sugar alcohols identified
CorrectionEntries ==
    {i \in DOMAIN compliance_report.changes_made :
        compliance_report.changes_made[i]
            = "Identified sugar alcohols (polyols) - these are NOT added sugars"}

\* C9: when the ingredient text has a polyol keyword and no caloric-sugar keyword and
\* the extracted added sugars are not zero (here: more than zero), the audit moves the
\* whole amount to sugar_alcohols_g, sets added_sugars_g to 0 and records exactly one
\* 'changes made' entry for it ('maltitol' with added_sugars_g = 12 gives 0 and 12
\* and one entry).
C9_SweetenerAutoCorrection ==
    (/\ Audited
     /\ AnyIn(polyol_keywords, ExtractedIngredients)
     /\ ~AnyIn(real_sugar_keywords, ExtractedIngredients)
     /\ ExtractedAddedSugars > 0) =>
        /\ Amount(Field(GivenNutrition, "added_sugars_g", Null)) = 0
        /\ Amount(Field(GivenNutrition, "sugar_alcohols_g", Null)) = ExtractedAddedSugars
        /\ Cardinality(CorrectionEntries) = 1

\* C10: when the ingredient text has both a polyol keyword (the E-numbers among them)
\* and a caloric-sugar keyword and the added sugars are not zero (here: more than
\* zero, on a panel declared present), the audit leaves added_sugars_g and
\* sugar_alcohols_g as they were and its report has a major issue that flags the
\* sweetener classification.
C10_AmbiguousSweetenerFlagged ==
    (/\ Audited
     /\ Truthy(Field(ExtractedNutrition, "present", Null))
     /\ AnyIn(polyol_keywords, ExtractedIngredients)
     /\ AnyIn(real_sugar_keywords, ExtractedIngredients)
     /\ ExtractedAddedSugars > 0) =>
        /\ \A key \in {"added_sugars_g", "sugar_alcohols_g"} :
              Field(GivenNutrition, key, Null) = Field(ExtractedNutrition, key, Null)
        /\ "Added Sugars vs Sugar Alcohols" \in Range(compliance_report.issues.major)

(***************************************************************************)
(* The polyol correction applied again to the record it produced.          *)
(***************************************************************************)
\* the first application has run to its end on the extracted record
BlockApplied == pc \in {"corrected", "reported"}

\* C11: applying the polyol correction block a second time, to the record the first
\* application produced, changes no field of the record (added_sugars_g and
\* sugar_alcohols_g keep their values), raises nothing and corrects nothing.
C11_CorrectionIdempotent ==
    BlockApplied =>
        /\ PolyolCorrectionBlock(label_data).exc = "none"
        /\ PolyolCorrectionBlock(label_data).label_data = label_data
        /\ ~PolyolCorrectionBlock(label_data).corrected

\* the first application moved a non-zero amount to sugar_alcohols_g
C11_AppliedAfterCorrection ==
    /\ pc = "corrected"
    /\ corrected
    /\ Amount(Field(GivenNutrition, "sugar_alcohols_g", Null)) > 0

(***************************************************************************)
(* Scenario D: a label that passes every check, but for a net quantity     *)
(* without metric units and a manufacturer without an address.             *)
(***************************************************************************)
ScenarioD ==
    {SetKey(SetKey(CompliantLabel, "principal_display_panel", "net_quantity_original",
                   Str(<<"1", " ", "o", "z">>)),
            "information_panel", "country_of_origin", country) :
        country \in {Str(<<"U", "S", "A">>), Str(<<"P", "e", "r", "u">>)}}

\* C12: for a label of scenario D (no manufacturer address, no metric unit in the net
\* quantity, every other check passing) the report has exactly 2 critical issues,
\* compliance_score 60 and the 'needs fixes' status.
C12_ScenarioD ==
    (Called /\ extracted_data \in ScenarioD) =>
        /\ compliance_report.raised = "none"
        /\ CriticalCount = 2
        /\ compliance_report.compliance_score = 60
        /\ compliance_report.status = "NEEDS FIXES - Close to compliance"

(***************************************************************************)
(* The net-quantity declaration as it reads: a unit is declared where it   *)
(* stands as a word of its own, after the amount ("28 g", "500g"), and not *)
(* where its letters are part of another word (the 'l' of "1 lb").         *)
(***************************************************************************)
IsLetter(c) == c \in Range(LowerCase) \cup Range(UpperCase) \cup AccentedLower

\* unit stands in text at position p as a word of its own
UnitAt(text, unit, p) ==
    /\ p + Len(unit) - 1 <= Len(text)
    /\ SubSeq(text, p, p + Len(unit) - 1) = unit
    /\ (p = 1 \/ ~IsLetter(text[p - 1]))
    /\ (p + Len(unit) > Len(text) \/ ~IsLetter(text[p + Len(unit)]))

DeclaresUnit(v, units) ==
    /\ v.t = "str"
    /\ \E i \in DOMAIN units, p \in 1..Len(v.s) : UnitAt(Lower(v.s), units[i], p)

GivenPdp == Section(label_data, "principal_display_panel", PdpKeys)

\* the declaration: the net quantity text and the fields holding its two parts
NetQuantityDeclares(units) ==
    \E key \in {"net_quantity_original", "net_quantity_us", "net_quantity_metric"} :
        DeclaresUnit(Field(GivenPdp, key, Null), units)

NetQuantityPresent ==
    /\ Returned
    /\ IsDict(GivenPdp)
    /\ Truthy(Field(GivenPdp, "net_quantity_original", Null))

NetQuantityCritical ==
    {"Net Quantity Declaration (21 CFR 101.105)", "Net Quantity - US Units Required",
     "Net Quantity - Metric Units"} \cap Range(compliance_report.issues.critical)

NetQuantityPassed ==
    "Net quantity in both US and metric units" \in Range(compliance_report.issues.passed)

\* C13: when a net-quantity text is present, the report has a critical net-quantity
\* issue if the declaration has no customary unit (oz, lb, fl oz), a critical
\* net-quantity issue if it has no metric unit (g, kg, ml, l), and the net-quantity
\* check among the passed ones only if the declaration has a unit of both families.
C13_NetQuantityUnits ==
    NetQuantityPresent =>
        /\ ~NetQuantityDeclares(us_units) => NetQuantityCritical # {}
        /\ ~NetQuantityDeclares(metric_units) => NetQuantityCritical # {}
        /\ NetQuantityPassed =>
              NetQuantityDeclares(us_units) /\ NetQuantityDeclares(metric_units)

(***************************************************************************)
(* The language check, on a record whose primary language was detected.    *)
(***************************************************************************)
GivenPrimaryLanguage ==
    Field(Section(label_data, "language_detection", LangKeys), "primary_language", Null)

LanguageDetected ==
    /\ Returned
    /\ IsDict(Section(label_data, "language_detection", LangKeys))
    /\ GivenPrimaryLanguage.t = "str"
    /\ GivenPrimaryLanguage.s # << >>

PrimaryIsEnglish == Lower(GivenPrimaryLanguage.s) = <<"e", "n", "g", "l", "i", "s", "h">>

\* C14: the report has the critical language issue exactly when the detected primary
\* language is not English, and has the language check among the passed ones only
\* when the primary language is English.
C14_LanguageCheck ==
    LanguageDetected =>
        /\ ("English Language (21 CFR 101.15)" \in Range(compliance_report.issues.critical))
              = ~PrimaryIsEnglish
        /\ ("English language requirement met" \in Range(compliance_report.issues.passed))
              => PrimaryIsEnglish

(***************************************************************************)
(* The entries of a report, by the check that makes them.                  *)
(***************************************************************************)
Severities == {"critical", "major", "minor", "passed"}

\* the entries each check of the method can append to the four lists
ChecklistEntries ==
    [statement_of_identity |->
        {"Statement of Identity (21 CFR 101.3)", "Statement of Identity present"},
     net_quantity |->
        {"Net Quantity Declaration (21 CFR 101.105)", "Net Quantity - US Units Required",
         "Net Quantity - Metric Units", "Net quantity in both US and metric units"},
     language |->
        {"English Language (21 CFR 101.15)", "English language requirement met"},
     ingredient_list |->
        {"Ingredient List (21 CFR 101.4)", "Ingredient list present"},
     manufacturer |->
        {"Manufacturer Information (21 CFR 101.5)", "Manufacturer information present",
         "Country of Origin Declaration"},
     nutrition_panel |->
        {"Nutrition Facts Panel (21 CFR 101.9)", "Nutrition Facts Format",
         "Nutrition Facts panel present"},
     allergen_cross_check |->
        {"Allergen Declaration (21 CFR 101.22)", "Allergens properly declared"},
     sweetener_reclassification |->
        {"Sugar alcohols properly separated from added sugars",
         "Added sugars = 0g is correct for products with only polyols",
         "Sugar Alcohols Declaration", "Added Sugars vs Sugar Alcohols"}]

\* the entries of the localization step, which is no check of the list
LocalizationEntries ==
    {"Chilean sellos identified and removed", "Mexican warnings identified and removed"}

\* the places <<severity, index>> of the report holding an entry of the set
EntriesIn(names) ==
    UNION {{<<sev, i>> : i \in {j \in DOMAIN compliance_report.issues[sev] :
                                  compliance_report.issues[sev][j] \in names}} :
           sev \in Severities}

\* the entries of the calorie cross-check: those of no other check
CalorieEntries ==
    UNION {{<<sev, i>> : i \in DOMAIN compliance_report.issues[sev]} : sev \in Severities}
        \ EntriesIn(LocalizationEntries
                      \cup UNION {ChecklistEntries[c] : c \in DOMAIN ChecklistEntries})

\* C15: in every report each check of the list (statement of identity, net quantity,
\* language, ingredient list, manufacturer, nutrition panel, allergen cross-check,
\* sweetener reclassification, calorie cross-check) has exactly one entry over the
\* critical, major, minor and passed lists.
C15_OneEntryPerCheck ==
    Returned =>
        /\ \A c \in DOMAIN ChecklistEntries : Cardinality(EntriesIn(ChecklistEntries[c])) = 1
        /\ Cardinality(CalorieEntries) = 1

(***************************************************************************)
(* The rounding rules as the display value of an amount: the multiples of  *)
(* a step nearest to it, written without a trailing ".0".                  *)
(***************************************************************************)
\* a call of apply_fda_rounding_rules on an amount has returned
RoundedAmount(types) ==
    /\ rounding # None
    /\ rounding.nutrient_type \in types
    /\ Float(rounding.value).exc = "none"

RoundingAmount == Float(rounding.value).v

\* the text of a number of Unit-ths: "5", "2.5"
Display(n) == IF n % Unit = 0 THEN DigitsOf(n \div Unit) ELSE FormatFloat(n)

\* the multiples of step (in Unit-ths) nearest to v >= 0: two of them at a tie
NearestMultiples(v, step) ==
    {m \in {(v \div step) * step, (v \div step) * step + step} :
        \A other \in {(v \div step) * step, (v \div step) * step + step} :
            (IF m >= v THEN m - v ELSE v - m) <= (IF other >= v THEN other - v ELSE v - other)}

ShowsNearest(step) ==
    rounding.text \in {Display(m) : m \in NearestMultiples(RoundingAmount, step)}

\* C16: for total_fat, saturated_fat and trans_fat the text is "0" for every amount
\* below 0.5 (0.49999 too), the nearest half-unit without a trailing ".0" for an
\* amount from 0.5 to below 5, and the nearest whole unit from 5 on.
C16_FatRounding ==
    RoundedAmount(FatTypes) =>
        IF 2 * RoundingAmount < Unit THEN rounding.text = <<"0">>
        ELSE IF RoundingAmount < 5 * Unit THEN ShowsNearest(Unit \div 2)
        ELSE ShowsNearest(Unit)

\* trans fat of 0.49999 has been rounded
C16_TransFatJustBelowHalf ==
    /\ RoundedAmount({"trans_fat"})
    /\ RoundingAmount = (Unit \div 2) - 1
    /\ rounding.text = <<"0">>

\* C18: for sodium the text is "0" for an amount below 5, the multiple of 5 nearest to
\* it for an amount from 5 to 140, both included, and the multiple of 10 nearest to it
\* above 140 (142 gives "140").
C18_SodiumRounding ==
    RoundedAmount({"sodium"}) =>
        /\ IF RoundingAmount < 5 * Unit THEN rounding.text = <<"0">>
           ELSE IF RoundingAmount <= 140 * Unit THEN ShowsNearest(5 * Unit)
           ELSE ShowsNearest(10 * Unit)
        /\ RoundingAmount = 142 * Unit => rounding.text = <<"1", "4", "0">>

\* sodium of 142 has been rounded
C18_Sodium142 ==
    /\ RoundedAmount({"sodium"})
    /\ RoundingAmount = 142 * Unit
    /\ rounding.text = <<"1", "4", "0">>

\* C19: for calories the text is "0" for an amount below 5, the multiple of 5 nearest
\* to it for an amount from 5 to 50, both included, and the multiple of 10 nearest to
\* it above 50.
C19_CalorieRounding ==
    RoundedAmount({"calories"}) =>
        IF RoundingAmount < 5 * Unit THEN rounding.text = <<"0">>
        ELSE IF RoundingAmount <= 50 * Unit THEN ShowsNearest(5 * Unit)
        ELSE ShowsNearest(10 * Unit)

\* calories of 47.25, between two multiples of 5 and within the range of step 5
C19_CaloriesBelowFifty ==
    /\ RoundedAmount({"calories"})
    /\ RoundingAmount = 47 * Unit + Unit \div 4
    /\ rounding.text = <<"4", "5">>

\* C20: for cholesterol the text is "0" for an amount below 2, "5" for an amount from
\* 2 to 5, both included, and the multiple of 5 nearest to it above 5.
C20_CholesterolRounding ==
    RoundedAmount({"cholesterol"}) =>
        IF RoundingAmount < 2 * Unit THEN rounding.text = <<"0">>
        ELSE IF RoundingAmount <= 5 * Unit THEN rounding.text = <<"5">>
        ELSE ShowsNearest(5 * Unit)

\* cholesterol of 2, which is nearer to 0 than to 5
C20_CholesterolTwo ==
    /\ RoundedAmount({"cholesterol"})
    /\ RoundingAmount = 2 * Unit
    /\ rounding.text = <<"5">>

(***************************************************************************)
(* The record extract_and_validate returns, against the display values of  *)
(* the amounts it was given.                                               *)
(***************************************************************************)
\* the nutrient type the label generator rounds each field by
DisplayTypes ==
    [calories |-> "calories", total_fat_g |-> "total_fat",
     saturated_fat_g |-> "saturated_fat", trans_fat_g |-> "trans_fat",
     cholesterol_mg |-> "cholesterol", sodium_mg |-> "sodium",
     total_carb_g |-> "total_carb", fiber_g |-> "fiber",
     total_sugars_g |-> "total_sugars", added_sugars_g |-> "added_sugars",
     protein_g |-> "protein", vitamin_d_mcg |-> "vitamin_d_mcg",
     calcium_mg |-> "calcium_mg", iron_mg |-> "iron_mg", potassium_mg |-> "potassium_mg"]

\* the fields of the input that state an amount
StatedAmounts ==
    {f \in Range(numeric_fields) :
        /\ Truthy(nutrition_data[f])
        /\ Float(nutrition_data[f]).exc = "none"
        /\ Float(nutrition_data[f]).v >= 0}

\* scenario A: total fat 0.3, saturated fat 0, trans fat 0.4
ScenarioA ==
    /\ nutrition_data["total_fat_g"] = Str(<<"0", ".", "3">>)
    /\ nutrition_data["saturated_fat_g"] = Str(<<"0">>)
    /\ nutrition_data["trans_fat_g"] = Str(<<"0", ".", "4">>)

\* C17: every nutrient field of the record extract_and_validate returns holds the
\* display value of the amount it was given (the same number as the rounding rules
\* give), and for total fat 0.3, saturated fat 0 and trans fat 0.4 the three fields
\* are "0".
C17_RecordFullyRounded ==
    pc = "converted" =>
        /\ \A f \in StatedAmounts :
              Float(corrected_data.data[f]).v
                  = ParseFloat(apply_fda_rounding_rules(nutrition_data[f], DisplayTypes[f]).text).v
        /\ ScenarioA =>
              \A f \in {"total_fat_g", "saturated_fat_g", "trans_fat_g"} :
                  corrected_data.data[f] = Str(<<"0">>)

(***************************************************************************)
(* The whole-unit rules: carbohydrates, sugars and protein.                *)
(***************************************************************************)
CarbAndProteinTypes == {"total_carb", "fiber", "total_sugars", "added_sugars", "protein"}

\* the whole number of units nearest to v >= 0, a half going up
RoundHalfUp(v) == (2 * v + Unit) \div (2 * Unit)

\* C21: for total_carb, fiber, total_sugars, added_sugars and protein the text is "0"
\* for an amount below 0.5 and the nearest whole unit from 0.5 on, a half going up
\* (0.5 to 1.4 gives "1", 1.5 to 2.4 gives "2"), so no amount of 0.5 or more is shown
\* as "0".
C21_CarbAndProteinRounding ==
    RoundedAmount(CarbAndProteinTypes) =>
        IF 2 * RoundingAmount < Unit THEN rounding.text = <<"0">>
        ELSE /\ rounding.text = DigitsOf(RoundHalfUp(RoundingAmount))
             /\ rounding.text # <<"0">>

(***************************************************************************)
(* apply_fda_rounding_rules on values that state no number.                *)
(***************************************************************************)
\* the value is null, or a text that is no numeral: empty, or with a character that
\* is no digit, sign, point or blank ("abc", "n/a", "nan", "inf")
StatesNoNumber(v) ==
    \/ v = Null
    \/ v.t = "str" /\ Strip(v.s) = << >>
    \/ v.t = "str" /\ \E i \in DOMAIN v.s : v.s[i] \notin Digits \cup {"-", "+", ".", " "}

\* C22: for every nutrient type and every value that states no number (null, the empty
\* string, a non-numeric text) apply_fda_rounding_rules raises nothing and returns "0".
C22_UnparseableGivesZero ==
    (rounding # None /\ StatesNoNumber(rounding.value)) =>
        /\ rounding.raised = "none"
        /\ rounding.text = <<"0">>

(***************************************************************************)
(* Properties of calculate_percent_dv.                                     *)
(***************************************************************************)
PercentCalled == percent # None

\* p is an integer nearest to amount / dv * 100, the amount in Unit-ths
NearestPercent(p, amount, dv) ==
    LET den == dv * (Unit \div 100)
        Distance(d) == IF d < 0 THEN 0 - d ELSE d
    IN  2 * Distance(p * den - amount) <= den

\* C23: for each of the twelve nutrients of the table calculate_percent_dv returns
\* round(amount / reference value * 100), the integer nearest to that percent; for a
\* nutrient the table does not have it returns 0.
C23_PercentOfReference ==
    PercentCalled =>
        IF percent.nutrient \in DOMAIN FDA_DAILY_VALUES
        THEN /\ Cardinality(DOMAIN FDA_DAILY_VALUES) = 12
             /\ NearestPercent(percent.result, percent.amount,
                               FDA_DAILY_VALUES[percent.nutrient])
             /\ NearestPercent(percent.result_larger, percent.larger,
                               FDA_DAILY_VALUES[percent.nutrient])
        ELSE percent.result = 0 /\ percent.result_larger = 0

\* 2.73 g of total fat is 3.5 percent of 78 g; the doubles give 3.4999999999999996
C23_TotalFatHalfway ==
    /\ PercentCalled
    /\ percent.nutrient = "total_fat"
    /\ percent.amount = 273 * (Unit \div 100)
    /\ percent.result = 3

\* C24: calculate_percent_dv does not decrease with the amount: for amounts
\* 0 <= a1 < a2 of one nutrient, the percent of a1 is at most the percent of a2.
C24_PercentMonotonic ==
    (PercentCalled /\ 0 <= percent.amount /\ percent.amount < percent.larger) =>
        percent.result <= percent.result_larger

\* 2.72 g and 2.73 g of total fat both give 3 percent; 2.74 g gives 4
C24_AcrossHalfway ==
    /\ PercentCalled
    /\ percent.nutrient = "total_fat"
    /\ percent.amount = 273 * (Unit \div 100)
    /\ percent.larger = 274 * (Unit \div 100)
    /\ percent.result = 3
    /\ percent.result_larger = 4

NoPercentNutrients == {"trans_fat", "total_sugars", "protein"}

Converted == pc = "converted"

\* the nonzero items of the percent_dv map of the record extract_and_validate returned
NonzeroPercents ==
    {corrected_data.percent_dv[i][1] :
        i \in {j \in DOMAIN corrected_data.percent_dv : corrected_data.percent_dv[j][2] # 0}}

\* C25: no percent of a reference value is produced for trans fat, total sugars or
\* protein: calculate_percent_dv returns 0 for each of them whatever the amount, and
\* the percent_dv map of _calculate_all_dv has no nonzero entry for any of the three.
C25_NoPercentForThree ==
    /\ (PercentCalled /\ percent.nutrient \in NoPercentNutrients) =>
            percent.result = 0 /\ percent.result_larger = 0
    /\ Converted => NonzeroPercents \cap NoPercentNutrients = {}

(***************************************************************************)
(* Properties of convert_metric_to_us_serving.                             *)
(***************************************************************************)
ServingConverted == serving # None

\* a household measure, then a parenthetical that closes the text
HouseholdThenParenthetical(text) ==
    /\ Len(text) > 0
    /\ text[Len(text)] = ")"
    /\ \E i \in 2..(Len(text) - 1) : text[i] = " " /\ text[i + 1] = "("

\* the numerals of a text: its longest runs of digits and points that have a digit
Numerals(text) ==
    LET NumeralChars == Digits \cup {"."}
        Starts == {i \in DOMAIN text :
                      text[i] \in NumeralChars /\ (i = 1 \/ text[i - 1] \notin NumeralChars)}
        Run(i) == SubSeq(text, i, i + RunLength(text, i, NumeralChars) - 1)
    IN  {Run(i) : i \in {j \in Starts : HasDigit(Run(j))}}

\* C26: convert_metric_to_us_serving keeps the metric amount: for every input text (one
\* of the table, a mass or volume it parses, decimal amounts such as 37.5g included,
\* or a text it cannot parse) the text returned is a household measure followed by a
\* parenthetical, and every numeral of the input is in it as it was written.
C26_MetricPreserved ==
    ServingConverted =>
        /\ HouseholdThenParenthetical(serving.text)
        /\ \A numeral \in Numerals(serving.metric_str) : Contains(serving.text, numeral)

(***************************************************************************)
(* Properties of validate_calorie_calculation.                             *)
(***************************************************************************)
CaloriesChecked == calorie_check # None

\* the four inputs as float() reads them, an absent one being 0
CalorieInputs ==
    [k \in CalorieKeys |-> Float(Get(calorie_check.data, k, Num(0)))]

CalorieInputsParsed == \A k \in CalorieKeys : CalorieInputs[k].exc = "none"

\* round(fat_g * 9 + carb_g * 4 + protein_g * 4)
Estimate ==
    RoundHalfEven(CalorieInputs["total_fat_g"].v * 9 + CalorieInputs["total_carb_g"].v * 4
                      + CalorieInputs["protein_g"].v * 4, Unit)

\* C27: validate_calorie_calculation returns (valid, message, estimate) with
\* estimate = round(fat_g * 9 + carb_g * 4 + protein_g * 4), and valid exactly when
\* estimate * 0.85 <= declared calories <= estimate * 1.15, both bounds included; when
\* one of the four inputs is null or no number it returns (False, error message, 0).
C27_CalorieTolerance ==
    CaloriesChecked =>
        IF CalorieInputsParsed
        THEN /\ calorie_check.result.calculated = Estimate
             /\ calorie_check.result.is_valid
                    = (/\ 85 * Estimate * (Unit \div 100) <= CalorieInputs["calories"].v
                       /\ CalorieInputs["calories"].v <= 115 * Estimate * (Unit \div 100))
        ELSE /\ ~calorie_check.result.is_valid
             /\ calorie_check.result.message.text = "Error validating calories"
             /\ calorie_check.result.calculated = 0

(***************************************************************************)
(* Properties of extract_and_validate.                                     *)
(***************************************************************************)
\* the value given for the field is replaced by '0': it is absent, null, empty, no
\* number or negative
Defaulted(field) ==
    \/ nutrition_data[field] \in {Absent, Null, Str(<< >>)}
    \/ Float(nutrition_data[field]).exc # "none"
    \/ Float(nutrition_data[field]).v < 0

\* the warnings and errors of the report that name the field
EntriesNaming(field) ==
    {i \in DOMAIN corrected_data.validation_report.warnings :
        /\ "field" \in DOMAIN corrected_data.validation_report.warnings[i]
        /\ corrected_data.validation_report.warnings[i].field = field}
    \cup {Len(corrected_data.validation_report.warnings) + i :
            i \in {j \in DOMAIN corrected_data.validation_report.errors :
                     corrected_data.validation_report.errors[j].field = field}}

NonNegativeNumeral(v) ==
    /\ v.t = "str"
    /\ ParseFloat(v.s).exc = "none"
    /\ ParseFloat(v.s).v >= 0

\* C28: defaulting is never silent: whenever extract_and_validate replaces a numeric
\* field by '0' because its value is absent, null, empty, no number or negative, the
\* validation report has a warning or an error naming the field; and after the call
\* each of the fifteen numeric fields holds the text of a number >= 0.
C28_DefaultingReported ==
    Converted =>
        \A i \in DOMAIN numeric_fields :
            /\ Len(numeric_fields) = 15
            /\ Defaulted(numeric_fields[i]) =>
                    /\ corrected_data.data[numeric_fields[i]] = Str(<<"0">>)
                    /\ EntriesNaming(numeric_fields[i]) # {}
            /\ NonNegativeNumeral(corrected_data.data[numeric_fields[i]])

(***************************************************************************)
(* Properties of a sequence of calls on one converter.                     *)
(***************************************************************************)
\* the report of the i-th call as the caller sees it now
ReportNow(i) ==
    [warnings |-> audits.lists[audits.calls[i].warnings],
     errors |-> audits.lists[audits.calls[i].errors]]

\* the report a converter that has made no other call gives for the record
ReportOfRecord(record) ==
    [warnings |-> extract_and_validate(audits.implementation, record)
                        .validation_report.warnings,
     errors |-> extract_and_validate(audits.implementation, record)
                        .validation_report.errors]

BothRound == {"calories", "total_fat", "saturated_fat", "cholesterol", "sodium"}

\* C30: the two rounding implementations agree: for every amount >= 0 of calories,
\* total fat, saturated fat, cholesterol and sodium, round_by_fda_rules returns the
\* number that apply_fda_rounding_rules returns as a text, the amounts 2, 5, 50 and
\* 140 where the rules change included.
C30_RoundingsAgree ==
    (RoundedAmount(BothRound) /\ RoundingAmount >= 0) =>
        /\ ParseFloat(rounding.text).exc = "none"
        /\ ParseFloat(rounding.text).v
                = round_by_fda_rules(RoundingAmount, rounding.nutrient_type).v

====
